---- MODULE Spec2Model ----
(***************************************************************************)
(* Model of the CHIP-8 / SUPER-CHIP virtual machine of chip8_complete.py   *)
(* (class Chip8CPU).  The machine object is the record `cpu`; every method *)
(* of the class is an operator from a machine record to the machine record *)
(* the call leaves behind, and every public entry point is one action.     *)
(* The record `gui` is the Chip8GUI harness around the machine: its flags, *)
(* the position of each of its threads and the canvas it has painted.      *)
(***************************************************************************)
EXTENDS Integers, Sequences, FiniteSets, TLC

VARIABLES cpu, result, gui

vars == <<cpu, result, gui>>

(***************************************************************************)
(* EmulatorConfig                                                          *)
(***************************************************************************)
memory_size == 4096
program_start == 512
font_start == 80
hires_font_start == 160
lores_width == 64
lores_height == 32
hires_width == 128
hires_height == 64
stack_size == 16
num_registers == 16
num_keys == 16

\* Bound of the model: cycle() is not taken once `cycles` reaches MaxCycles.
MaxCycles == 19

\* The two quirk settings a machine is constructed with: the COSMAC VIP
\* defaults of EmulatorConfig and the CHIP-48 style opposite of each flag.
DefaultQuirks ==
    [quirk_vf_reset |-> TRUE, quirk_memory_increment |-> TRUE,
     quirk_display_wait |-> TRUE, quirk_clipping |-> TRUE,
     quirk_shifting |-> FALSE, quirk_jumping |-> FALSE]

Chip48Quirks ==
    [quirk_vf_reset |-> FALSE, quirk_memory_increment |-> FALSE,
     quirk_display_wait |-> FALSE, quirk_clipping |-> FALSE,
     quirk_shifting |-> TRUE, quirk_jumping |-> TRUE]

Configs == {DefaultQuirks, Chip48Quirks}

FONT_4X5 ==
    << 240, 144, 144, 144, 240,   32,  96,  32,  32, 112,
       240,  16, 240, 128, 240,  240,  16, 240,  16, 240,
       144, 144, 240,  16,  16,  240, 128, 240,  16, 240,
       240, 128, 240, 144, 240,  240,  16,  32,  64,  64,
       240, 144, 240, 144, 240,  240, 144, 240,  16, 240,
       240, 144, 240, 144, 144,  224, 144, 224, 144, 224,
       240, 128, 128, 128, 240,  224, 144, 144, 144, 224,
       240, 128, 240, 128, 240,  240, 128, 240, 128, 128 >>

FONT_8X10 ==
    <<  60, 126, 231, 195, 195, 195, 195, 231, 126,  60,
        24,  56,  88,  24,  24,  24,  24,  24,  24,  60,
        62, 127, 195,   6,  12,  24,  48,  96, 255, 255,
        60, 126, 195,   3,  14,  14,   3, 195, 126,  60,
         6,  14,  30,  54, 102, 198, 255, 255,   6,   6,
       255, 255, 192, 192, 252, 254,   3, 195, 126,  60,
        62, 124, 192, 192, 252, 254, 195, 195, 126,  60,
       255, 255,   3,   6,  12,  24,  48,  96,  96,  96,
        60, 126, 195, 195, 126, 126, 195, 195, 126,  60,
        60, 126, 195, 195, 127,  63,   3,   3,  62, 124 >>

(***************************************************************************)
(* Python's integer operators on non-negative operands                     *)
(***************************************************************************)
RECURSIVE BitOp(_, _, _, _)
\* Bitwise combination of a and b over `bits` bits; f is the truth table of
\* the operator as a set of bit pairs that give 1.
BitOp(f, a, b, bits) ==
    IF bits = 0 THEN 0
    ELSE (IF <<a % 2, b % 2>> \in f THEN 1 ELSE 0)
         + 2 * BitOp(f, a \div 2, b \div 2, bits - 1)

BitAnd(a, b) == BitOp({<<1, 1>>}, a, b, 16)
BitOr(a, b) == BitOp({<<1, 1>>, <<1, 0>>, <<0, 1>>}, a, b, 16)
BitXor(a, b) == BitOp({<<1, 0>>, <<0, 1>>}, a, b, 16)

RECURSIVE Pow2(_)
Pow2(k) == IF k = 0 THEN 1 ELSE 2 * Pow2(k - 1)

Shr(a, k) == a \div Pow2(k)
Shl(a, k) == a * Pow2(k)

Min(a, b) == IF a < b THEN a ELSE b

(***************************************************************************)
(* Chip8CPU.reset                                                          *)
(***************************************************************************)
\* The memory is kept as the function from the addresses that hold a nonzero
\* byte to that byte; every other address of 0..memory_size-1 holds 0.
Byte(memory, a) == IF a \in DOMAIN memory THEN memory[a] ELSE 0

\* the byte the fonts put at address a of a zeroed memory
FontByte(a) ==
    IF a >= font_start /\ a < font_start + Len(FONT_4X5)
        THEN FONT_4X5[a - font_start + 1]
    ELSE IF a >= hires_font_start /\ a < hires_font_start + Len(FONT_8X10)
        THEN FONT_8X10[a - hires_font_start + 1]
    ELSE 0

\* bytearray(memory_size) with both fonts copied in
FontMemory ==
    [a \in {b \in 0..(memory_size - 1) : FontByte(b) # 0} |-> FontByte(a)]

\* The display is kept as the set of lit columns of each of the 64 rows of
\* 128 cells (a cell holds 1 iff its column is in the row's set).
BlankDisplay == [y \in 0..(hires_height - 1) |-> {}]

reset(config) ==
    [config |-> config,
     memory |-> FontMemory,
     v |-> [r \in 0..(num_registers - 1) |-> 0],
     i |-> 0,
     pc |-> program_start,
     stack |-> [k \in 0..(stack_size - 1) |-> 0],
     sp |-> 0,
     delay_timer |-> 0,
     sound_timer |-> 0,
     display_width |-> lores_width,
     display_height |-> lores_height,
     display |-> BlankDisplay,
     hires_mode |-> FALSE,
     keys |-> [k \in 0..(num_keys - 1) |-> FALSE],
     draw_flag |-> FALSE,
     waiting_for_key |-> FALSE,
     key_register |-> 0,
     halted |-> FALSE,
     rpl_flags |-> [k \in 0..7 |-> 0],
     rom_loaded |-> FALSE,
     rom_name |-> "",
     rom_size |-> 0,
     cycles |-> 0]

(***************************************************************************)
(* Memory accesses.  A bytearray index of memory_size or more raises       *)
(* IndexError: the stores made before it stay, the rest of the instruction *)
(* (and the pc advance) is skipped.                                        *)
(***************************************************************************)
InMemory(a) == a < memory_size

\* memory after `for idx in range(count): memory[base + idx] = val[idx]`,
\* the loop stopping at the first index out of range
StoreBlock(memory, base, count, val) ==
    LET block == base..(Min(base + count, memory_size) - 1)
        nonzero == {a \in block : val[a - base] # 0}
    IN [a \in (DOMAIN memory \ block) \cup nonzero |->
          IF a \in nonzero THEN val[a - base] ELSE memory[a]]

\* whether an access to memory[base .. base + count - 1] raises
BlockRaises(base, count) == count > 0 /\ ~InMemory(base + count - 1)

(***************************************************************************)
(* Chip8CPU.load_rom                                                       *)
(***************************************************************************)
\* The call raises ValueError after the reset when the image is too large.
load_rom_raises(data) == Len(data) > memory_size - program_start

\* load_rom() storing the image into the machine as it is, with no reset
load_rom_without_reset(s, data, name) ==
    LET byte == [k \in 0..(Len(data) - 1) |-> data[k + 1]]
    IN
    IF load_rom_raises(data) THEN s
    ELSE [s EXCEPT
            !.memory = StoreBlock(s.memory, program_start, Len(data), byte),
            !.rom_loaded = TRUE,
            !.rom_name = IF name = "" THEN "Unknown" ELSE name,
            !.rom_size = Len(data)]

load_rom(s, data, name) ==
    LET r == reset(s.config)
        byte == [k \in 0..(Len(data) - 1) |-> data[k + 1]]
    IN
    IF load_rom_raises(data) THEN r
    ELSE [r EXCEPT
            !.memory = StoreBlock(r.memory, program_start, Len(data), byte),
            !.rom_loaded = TRUE,
            !.rom_name = IF name = "" THEN "Unknown" ELSE name,
            !.rom_size = Len(data)]

(***************************************************************************)
(* Display operations                                                      *)
(***************************************************************************)
Rows == 0..(hires_height - 1)

cls(s) ==
    [s EXCEPT !.display = [y \in Rows |-> {}],
              !.draw_flag = TRUE,
              !.pc = s.pc + 2]

\* the sprite columns of one row that are drawn: bit `col` (from the left) of
\* the `width`-bit row value is set, and clipping has not ended the row
RowColumns(s, bits, width, vx, clip) ==
    {col \in 0..(width - 1) :
        /\ (bits \div Pow2(width - 1 - col)) % 2 = 1
        /\ (clip => vx + col < s.display_width)}

\* a sprite row that sets v[0xF] on whatever it draws
DrawRow_flags_drawn(s, py, vx, cols) ==
    LET cells == {(vx + col) % s.display_width : col \in cols}
        old == s.display[py]
    IN [s EXCEPT
          !.display[py] = (old \ cells) \cup (cells \ old),
          !.v[15] = IF cells # {} THEN 1 ELSE s.v[15]]

\* a sprite row ORed into display row py
DrawRow_or(s, py, vx, cols) ==
    LET cells == {(vx + col) % s.display_width : col \in cols}
        old == s.display[py]
    IN [s EXCEPT
          !.display[py] = old \cup cells,
          !.v[15] = IF cells \cap old # {} THEN 1 ELSE s.v[15]]

\* one sprite row XORed into display row py; v[0xF] = 1 on an erased cell
DrawRow(s, py, vx, cols) ==
    LET cells == {(vx + col) % s.display_width : col \in cols}
        old == s.display[py]
    IN [s EXCEPT
          !.display[py] = (old \ cells) \cup (cells \ old),
          !.v[15] = IF cells \cap old # {} THEN 1 ELSE s.v[15]]

RECURSIVE draw_8xn_from(_, _, _, _, _)
draw_8xn_from(s, vx, vy, n, row) ==
    IF row >= n THEN s
    ELSE IF s.config.quirk_clipping /\ vy + row >= s.display_height THEN s
    ELSE IF ~InMemory(s.i + row) THEN s
    ELSE draw_8xn_from(
            DrawRow(s, (vy + row) % s.display_height, vx,
                    RowColumns(s, Byte(s.memory, s.i + row), 8, vx,
                               s.config.quirk_clipping)),
            vx, vy, n, row + 1)

draw_8xn(s, vx, vy, n) == draw_8xn_from(s, vx, vy, n, 0)

\* the rows draw_8xn reaches before the clipping break
draw_8xn_raises(s, vy, n) ==
    \E row \in 0..(n - 1) :
        /\ ~(s.config.quirk_clipping /\ vy + row >= s.display_height)
        /\ ~InMemory(s.i + row)

RECURSIVE draw_16x16_from(_, _, _, _)
draw_16x16_from(s, vx, vy, row) ==
    IF row >= 16 THEN s
    ELSE IF ~InMemory(s.i + row * 2 + 1) THEN s
    ELSE draw_16x16_from(
            DrawRow(s, (vy + row) % s.display_height, vx,
                    RowColumns(s, Byte(s.memory, s.i + row * 2) * 256
                                  + Byte(s.memory, s.i + row * 2 + 1),
                               16, vx, FALSE)),
            vx, vy, row + 1)

draw_16x16(s, vx, vy) == draw_16x16_from(s, vx, vy, 0)

draw_16x16_raises(s) == ~InMemory(s.i + 31)

draw_raises(s, x, y, n) ==
    IF n = 0 /\ s.hires_mode THEN draw_16x16_raises(s)
    ELSE draw_8xn_raises(s, s.v[y] % s.display_height, n)

draw(s, x, y, n) ==
    LET vx == s.v[x] % s.display_width
        vy == s.v[y] % s.display_height
        s0 == [s EXCEPT !.v[15] = 0]
        s1 == IF n = 0 /\ s.hires_mode THEN draw_16x16(s0, vx, vy)
              ELSE draw_8xn(s0, vx, vy, n)
    IN IF draw_raises(s, x, y, n) THEN s1
       ELSE [s1 EXCEPT !.draw_flag = TRUE]

scroll_down(s, n) ==
    IF n = 0 THEN [s EXCEPT !.pc = s.pc + 2]
    ELSE [s EXCEPT
            !.display = [y \in Rows |->
                IF y < n THEN {}
                ELSE IF y < s.display_height THEN s.display[y - n]
                ELSE s.display[y]],
            !.draw_flag = TRUE,
            !.pc = s.pc + 2]

scroll_up(s, n) ==
    IF n = 0 THEN [s EXCEPT !.pc = s.pc + 2]
    ELSE [s EXCEPT
            !.display = [y \in Rows |->
                IF y < s.display_height - n THEN s.display[y + n]
                ELSE IF y < s.display_height THEN {}
                ELSE s.display[y]],
            !.draw_flag = TRUE,
            !.pc = s.pc + 2]

scroll_right(s) ==
    [s EXCEPT
        !.display = [y \in Rows |->
            IF y < s.display_height
            THEN {c + 4 : c \in {d \in s.display[y] : d + 4 < hires_width}}
            ELSE s.display[y]],
        !.draw_flag = TRUE,
        !.pc = s.pc + 2]

scroll_left(s) ==
    [s EXCEPT
        !.display = [y \in Rows |->
            IF y < s.display_height
            THEN {c - 4 : c \in {d \in s.display[y] : d >= 4}}
            ELSE s.display[y]],
        !.draw_flag = TRUE,
        !.pc = s.pc + 2]

set_lores(s) ==
    [s EXCEPT !.hires_mode = FALSE,
              !.display_width = lores_width,
              !.display_height = lores_height,
              !.pc = s.pc + 2]

set_hires(s) ==
    [s EXCEPT !.hires_mode = TRUE,
              !.display_width = hires_width,
              !.display_height = hires_height,
              !.pc = s.pc + 2]

(***************************************************************************)
(* Stack operations and the XO-CHIP ranged transfers                       *)
(***************************************************************************)
\* RET popping before the underflow test
ret_pops_first(s) ==
    IF s.sp = 0 THEN [s EXCEPT !.halted = TRUE, !.sp = s.sp - 1]
    ELSE [s EXCEPT !.sp = s.sp - 1,
                   !.pc = s.stack[s.sp - 1] + 2]

ret(s) ==
    IF s.sp = 0 THEN [s EXCEPT !.halted = TRUE]
    ELSE [s EXCEPT !.sp = s.sp - 1,
                   !.pc = s.stack[s.sp - 1] + 2]

\* 2NNN without the overflow test
call_unchecked(s, nnn) ==
    [s EXCEPT !.stack[s.sp] = s.pc,
              !.sp = s.sp + 1,
              !.pc = nnn]

\* 2NNN pushing the address of the next instruction
call_pushes_next(s, nnn) ==
    IF s.sp >= stack_size THEN [s EXCEPT !.halted = TRUE]
    ELSE [s EXCEPT !.stack[s.sp] = s.pc + 2,
                   !.sp = s.sp + 1,
                   !.pc = nnn]

\* 2NNN
call(s, nnn) ==
    IF s.sp >= stack_size THEN [s EXCEPT !.halted = TRUE]
    ELSE [s EXCEPT !.stack[s.sp] = s.pc,
                   !.sp = s.sp + 1,
                   !.pc = nnn]

\* number of registers of the range Vx..Vy (either direction)
RangeCount(x, y) == IF x <= y THEN y - x + 1 ELSE x - y + 1

\* the register transferred at position idx of the range
RangeReg(x, y, idx) == IF x <= y THEN x + idx ELSE x - idx

save_range_raises(s, x, y) == BlockRaises(s.i, RangeCount(x, y))

save_range(s, x, y) ==
    LET val == [idx \in 0..(RangeCount(x, y) - 1) |-> s.v[RangeReg(x, y, idx)]]
        s1 == [s EXCEPT !.memory = StoreBlock(s.memory, s.i, RangeCount(x, y), val)]
    IN IF save_range_raises(s, x, y) THEN s1
       ELSE [s1 EXCEPT !.pc = s.pc + 2]

load_range(s, x, y) ==
    LET s1 == [s EXCEPT !.v = [r \in 0..(num_registers - 1) |->
                  IF /\ r >= Min(x, y) /\ r <= (x + y) - Min(x, y)
                     /\ InMemory(s.i + (IF x <= y THEN r - x ELSE x - r))
                  THEN Byte(s.memory, s.i + (IF x <= y THEN r - x ELSE x - r))
                  ELSE s.v[r]]]
    IN IF save_range_raises(s, x, y) THEN s1
       ELSE [s1 EXCEPT !.pc = s.pc + 2]

(***************************************************************************)
(* Chip8CPU._execute_8xxx                                                  *)
(***************************************************************************)
\* v after `v[0xF] = flag; v[x] = val`: the result written last
SetVFThenVx(v, x, val, flag) == [[v EXCEPT ![15] = flag] EXCEPT ![x] = val]

\* v after `v[x] = val; v[0xF] = flag`, in that order
SetVxThenVF(v, x, val, flag) == [[v EXCEPT ![x] = val] EXCEPT ![15] = flag]

\* v after a logic opcode: v[0xF] is cleared after the result when vf_reset
LogicResult(s, x, val) ==
    IF s.config.quirk_vf_reset THEN SetVxThenVF(s.v, x, val, 0)
    ELSE [s.v EXCEPT ![x] = val]

\* the shift source without the quirk: always v[x]
ShiftSource_always_vx(s, x, y) == s.v[x]

ShiftSource(s, x, y) == IF s.config.quirk_shifting THEN s.v[x] ELSE s.v[y]

\* 8XYn where 8XY5 reports a borrow on equal operands
execute_8xxx_borrow_on_equal(s, x, y, n) ==
    LET vx == s.v[x]
        vy == s.v[y]
        src == ShiftSource(s, x, y)
        v1 == CASE n = 0 -> [s.v EXCEPT ![x] = vy]
                [] n = 1 -> LogicResult(s, x, BitOr(vx, vy))
                [] n = 2 -> LogicResult(s, x, BitAnd(vx, vy))
                [] n = 3 -> LogicResult(s, x, BitXor(vx, vy))
                [] n = 4 -> SetVxThenVF(s.v, x, (vx + vy) % 256,
                                        IF vx + vy > 255 THEN 1 ELSE 0)
                [] n = 5 -> SetVxThenVF(s.v, x, (vx - vy) % 256,
                                        IF vx <= vy THEN 0 ELSE 1)
                [] n = 6 -> SetVxThenVF(s.v, x, Shr(src, 1), src % 2)
                [] n = 7 -> SetVxThenVF(s.v, x, (vy - vx) % 256,
                                        IF vy < vx THEN 0 ELSE 1)
                [] n = 14 -> SetVxThenVF(s.v, x, Shl(src, 1) % 256,
                                         Shr(src, 7) % 2)
                [] OTHER -> s.v
    IN [s EXCEPT !.v = v1, !.pc = s.pc + 2]

\* 8XYn where an undefined n clears v[x]
execute_8xxx_undefined_clears(s, x, y, n) ==
    LET vx == s.v[x]
        vy == s.v[y]
        src == ShiftSource(s, x, y)
        v1 == CASE n = 0 -> [s.v EXCEPT ![x] = vy]
                [] n = 1 -> LogicResult(s, x, BitOr(vx, vy))
                [] n = 2 -> LogicResult(s, x, BitAnd(vx, vy))
                [] n = 3 -> LogicResult(s, x, BitXor(vx, vy))
                [] n = 4 -> SetVxThenVF(s.v, x, (vx + vy) % 256,
                                        IF vx + vy > 255 THEN 1 ELSE 0)
                [] n = 5 -> SetVxThenVF(s.v, x, (vx - vy) % 256,
                                        IF vx < vy THEN 0 ELSE 1)
                [] n = 6 -> SetVxThenVF(s.v, x, Shr(src, 1), src % 2)
                [] n = 7 -> SetVxThenVF(s.v, x, (vy - vx) % 256,
                                        IF vy < vx THEN 0 ELSE 1)
                [] n = 14 -> SetVxThenVF(s.v, x, Shl(src, 1) % 256,
                                         Shr(src, 7) % 2)
                [] OTHER -> [s.v EXCEPT ![x] = 0]
    IN [s EXCEPT !.v = v1, !.pc = s.pc + 2]

execute_8xxx(s, x, y, n) ==
    LET vx == s.v[x]
        vy == s.v[y]
        src == ShiftSource(s, x, y)
        v1 == CASE n = 0 -> [s.v EXCEPT ![x] = vy]
                [] n = 1 -> LogicResult(s, x, BitOr(vx, vy))
                [] n = 2 -> LogicResult(s, x, BitAnd(vx, vy))
                [] n = 3 -> LogicResult(s, x, BitXor(vx, vy))
                [] n = 4 -> SetVxThenVF(s.v, x, (vx + vy) % 256,
                                        IF vx + vy > 255 THEN 1 ELSE 0)
                [] n = 5 -> SetVxThenVF(s.v, x, (vx - vy) % 256,
                                        IF vx < vy THEN 0 ELSE 1)
                [] n = 6 -> SetVxThenVF(s.v, x, Shr(src, 1), src % 2)
                [] n = 7 -> SetVxThenVF(s.v, x, (vy - vx) % 256,
                                        IF vy < vx THEN 0 ELSE 1)
                [] n = 14 -> SetVxThenVF(s.v, x, Shl(src, 1) % 256,
                                         Shr(src, 7) % 2)
                [] OTHER -> s.v
    IN [s EXCEPT !.v = v1, !.pc = s.pc + 2]

(***************************************************************************)
(* Chip8CPU._execute_fxxx                                                  *)
(***************************************************************************)
execute_fxxx_raises(s, x, nn) ==
    CASE nn = 51 -> BlockRaises(s.i, 3)
      [] nn = 85 -> BlockRaises(s.i, x + 1)
      [] nn = 101 -> BlockRaises(s.i, x + 1)
      [] OTHER -> FALSE

\* FX0A blocking the machine through the halted flag as well
wait_for_key_halts(s, x) ==
    [s EXCEPT !.waiting_for_key = TRUE, !.key_register = x, !.halted = TRUE]

\* FX0A
wait_for_key(s, x) ==
    [s EXCEPT !.waiting_for_key = TRUE, !.key_register = x]

\* i after FX55 / FX65 when the quirk is not consulted
IndexAfterTransfer_always(s, x) == (s.i + x + 1) % 65536

\* i after FX55 / FX65
IndexAfterTransfer(s, x) ==
    IF s.config.quirk_memory_increment THEN (s.i + x + 1) % 65536 ELSE s.i

execute_fxxx(s, x, nn) ==
    LET bcd == [idx \in 0..2 |->
                   CASE idx = 0 -> s.v[x] \div 100
                     [] idx = 1 -> (s.v[x] \div 10) % 10
                     [] OTHER -> s.v[x] % 10]
        reg == [idx \in 0..x |-> s.v[idx]]
        digit == s.v[x] % 16
        raises == execute_fxxx_raises(s, x, nn)
        s1 == CASE nn = 7 -> [s EXCEPT !.v[x] = s.delay_timer]
                [] nn = 21 -> [s EXCEPT !.delay_timer = s.v[x]]
                [] nn = 24 -> [s EXCEPT !.sound_timer = s.v[x]]
                [] nn = 30 -> [s EXCEPT !.i = (s.i + s.v[x]) % 65536]
                [] nn = 41 -> [s EXCEPT !.i = font_start + digit * 5]
                [] nn = 48 -> IF digit <= 9
                              THEN [s EXCEPT !.i = hires_font_start + digit * 10]
                              ELSE s
                [] nn = 51 -> [s EXCEPT !.memory = StoreBlock(s.memory, s.i, 3, bcd)]
                [] nn = 85 ->
                     [s EXCEPT !.memory = StoreBlock(s.memory, s.i, x + 1, reg),
                               !.i = IF raises THEN s.i ELSE IndexAfterTransfer(s, x)]
                [] nn = 101 ->
                     [s EXCEPT !.v = [r \in 0..(num_registers - 1) |->
                                        IF r <= x /\ InMemory(s.i + r)
                                        THEN Byte(s.memory, s.i + r) ELSE s.v[r]],
                               !.i = IF raises THEN s.i ELSE IndexAfterTransfer(s, x)]
                [] nn = 117 ->
                     [s EXCEPT !.rpl_flags = [k \in 0..7 |->
                          IF k < Min(x + 1, 8) THEN s.v[k] ELSE s.rpl_flags[k]]]
                [] nn = 133 ->
                     [s EXCEPT !.v = [r \in 0..(num_registers - 1) |->
                          IF r < Min(x + 1, 8) THEN s.rpl_flags[r] ELSE s.v[r]]]
                [] OTHER -> s
    IN IF nn = 10 THEN wait_for_key(s, x)
       ELSE IF raises THEN s1
       ELSE [s1 EXCEPT !.pc = s.pc + 2]

(***************************************************************************)
(* Chip8CPU._execute                                                       *)
(***************************************************************************)
\* BNNN
jump_offset(s, nnn, x) ==
    IF s.config.quirk_jumping THEN [s EXCEPT !.pc = nnn + s.v[x]]
    ELSE [s EXCEPT !.pc = nnn + s.v[0]]

\* 00FD
exit_interpreter(s) == [s EXCEPT !.halted = TRUE]

skip_if(s, cond) == [s EXCEPT !.pc = s.pc + (IF cond THEN 4 ELSE 2)]

advance(s) == [s EXCEPT !.pc = s.pc + 2]

\* whether the instruction raises IndexError part-way
execute_raises(s, opcode) ==
    LET nn == opcode % 256
        n == opcode % 16
        x == (opcode \div 256) % 16
        y == (opcode \div 16) % 16
        op == opcode \div 4096
    IN CASE op = 5 /\ n \in {2, 3} -> save_range_raises(s, x, y)
         [] op = 13 -> draw_raises(s, x, y, n)
         [] op = 15 -> execute_fxxx_raises(s, x, nn)
         [] OTHER -> FALSE

\* rnd is the value random.randint(0, 255) returns for CXNN
execute(s, opcode, rnd) ==
    LET nnn == opcode % 4096
        nn == opcode % 256
        n == opcode % 16
        x == (opcode \div 256) % 16
        y == (opcode \div 16) % 16
        op == opcode \div 4096
    IN CASE op = 0 ->
              (CASE opcode = 224 -> cls(s)
                 [] opcode = 238 -> ret(s)
                 [] opcode = 251 -> scroll_right(s)
                 [] opcode = 252 -> scroll_left(s)
                 [] opcode = 253 -> exit_interpreter(s)
                 [] opcode = 254 -> set_lores(s)
                 [] opcode = 255 -> set_hires(s)
                 [] opcode \div 16 = 12 -> scroll_down(s, n)
                 [] opcode \div 16 = 13 -> scroll_up(s, n)
                 [] OTHER -> advance(s))
         [] op = 1 -> [s EXCEPT !.pc = nnn]
         [] op = 2 -> call(s, nnn)
         [] op = 3 -> skip_if(s, s.v[x] = nn)
         [] op = 4 -> skip_if(s, s.v[x] # nn)
         [] op = 5 ->
              (CASE n = 0 -> skip_if(s, s.v[x] = s.v[y])
                 [] n = 2 -> save_range(s, x, y)
                 [] n = 3 -> load_range(s, x, y)
                 [] OTHER -> advance(s))
         [] op = 6 -> advance([s EXCEPT !.v[x] = nn])
         [] op = 7 -> advance([s EXCEPT !.v[x] = (s.v[x] + nn) % 256])
         [] op = 8 -> execute_8xxx(s, x, y, n)
         [] op = 9 ->
              (CASE n = 0 -> skip_if(s, s.v[x] # s.v[y])
                 [] OTHER -> advance(s))
         [] op = 10 -> advance([s EXCEPT !.i = nnn])
         [] op = 11 -> jump_offset(s, nnn, x)
         [] op = 12 -> advance([s EXCEPT !.v[x] = BitAnd(rnd, nn)])
         [] op = 13 ->
              IF draw_raises(s, x, y, n) THEN draw(s, x, y, n)
              ELSE advance(draw(s, x, y, n))
         [] op = 14 ->
              (CASE nn = 158 -> skip_if(s, s.keys[s.v[x] % 16])
                 [] nn = 161 -> skip_if(s, ~s.keys[s.v[x] % 16])
                 [] OTHER -> advance(s))
         [] OTHER -> execute_fxxx(s, x, nn)

(***************************************************************************)
(* Chip8CPU.cycle: the machine the call leaves and what the call returns   *)
(* ("True", "False") or raises ("IndexError")                              *)
(***************************************************************************)
\* the opcode read low byte first
fetch_little_endian(s) == Byte(s.memory, s.pc + 1) * 256 + Byte(s.memory, s.pc)

fetch(s) == Byte(s.memory, s.pc) * 256 + Byte(s.memory, s.pc + 1)

\* cycle() without the halted test
cycle_no_halt_check(s, rnd) ==
    IF s.waiting_for_key THEN [cpu |-> s, result |-> "False"]
    ELSE IF s.pc >= memory_size - 1
        THEN [cpu |-> [s EXCEPT !.halted = TRUE], result |-> "False"]
    ELSE LET opcode == fetch(s)
             s1 == execute(s, opcode, rnd)
         IN IF execute_raises(s, opcode)
            THEN [cpu |-> s1, result |-> "IndexError"]
            ELSE [cpu |-> [s1 EXCEPT !.cycles = s.cycles + 1],
                  result |-> "True"]

\* cycle() without the waiting_for_key test
cycle_no_wait_check(s, rnd) ==
    IF s.halted THEN [cpu |-> s, result |-> "False"]
    ELSE IF s.pc >= memory_size - 1
        THEN [cpu |-> [s EXCEPT !.halted = TRUE], result |-> "False"]
    ELSE LET opcode == fetch(s)
             s1 == execute(s, opcode, rnd)
         IN IF execute_raises(s, opcode)
            THEN [cpu |-> s1, result |-> "IndexError"]
            ELSE [cpu |-> [s1 EXCEPT !.cycles = s.cycles + 1],
                  result |-> "True"]

cycle(s, rnd) ==
    IF s.halted THEN [cpu |-> s, result |-> "False"]
    ELSE IF s.waiting_for_key THEN [cpu |-> s, result |-> "False"]
    ELSE IF s.pc >= memory_size - 1
        THEN [cpu |-> [s EXCEPT !.halted = TRUE], result |-> "False"]
    ELSE LET opcode == fetch(s)
             s1 == execute(s, opcode, rnd)
         IN IF execute_raises(s, opcode)
            THEN [cpu |-> s1, result |-> "IndexError"]
            ELSE [cpu |-> [s1 EXCEPT !.cycles = s.cycles + 1],
                  result |-> "True"]

(***************************************************************************)
(* Input, timers, save states                                              *)
(***************************************************************************)
\* key_pressed() without the waiting_for_key test
key_pressed_unguarded(s, key) ==
    [s EXCEPT !.v[s.key_register] = key,
              !.waiting_for_key = FALSE,
              !.pc = s.pc + 2]

\* key_pressed() leaving pc on the FX0A
key_pressed_no_advance(s, key) ==
    IF s.waiting_for_key
    THEN [s EXCEPT !.v[s.key_register] = key,
                   !.waiting_for_key = FALSE]
    ELSE s

key_pressed(s, key) ==
    IF s.waiting_for_key
    THEN [s EXCEPT !.v[s.key_register] = key,
                   !.waiting_for_key = FALSE,
                   !.pc = s.pc + 2]
    ELSE s

key_released(s, key) == s

\* update_timers() counting only while the machine runs
update_timers_running_only(s) ==
    IF s.halted \/ s.waiting_for_key THEN s
    ELSE [s EXCEPT
            !.delay_timer = IF s.delay_timer > 0 THEN s.delay_timer - 1 ELSE 0,
            !.sound_timer = IF s.sound_timer > 0 THEN s.sound_timer - 1 ELSE 0]

\* update_timers() decrementing without the > 0 tests
update_timers_unguarded(s) ==
    [s EXCEPT !.delay_timer = s.delay_timer - 1,
              !.sound_timer = s.sound_timer - 1]

update_timers(s) ==
    [s EXCEPT
        !.delay_timer = IF s.delay_timer > 0 THEN s.delay_timer - 1 ELSE 0,
        !.sound_timer = IF s.sound_timer > 0 THEN s.sound_timer - 1 ELSE 0]

\* EmulatorState
get_state(s) ==
    [memory |-> s.memory, v |-> s.v, i |-> s.i, pc |-> s.pc,
     stack |-> s.stack, sp |-> s.sp,
     delay_timer |-> s.delay_timer, sound_timer |-> s.sound_timer,
     display |-> s.display, keys |-> s.keys,
     hires_mode |-> s.hires_mode, rpl_flags |-> s.rpl_flags]

load_state(s, state) ==
    [s EXCEPT
        !.memory = state.memory, !.v = state.v, !.i = state.i,
        !.pc = state.pc, !.stack = state.stack, !.sp = state.sp,
        !.delay_timer = state.delay_timer,
        !.sound_timer = state.sound_timer,
        !.display = state.display, !.keys = state.keys,
        !.hires_mode = state.hires_mode, !.rpl_flags = state.rpl_flags,
        !.display_width = IF state.hires_mode THEN hires_width ELSE lores_width,
        !.display_height = IF state.hires_mode THEN hires_height ELSE lores_height,
        !.draw_flag = TRUE,
        !.halted = FALSE,
        !.waiting_for_key = FALSE]

\* Chip8GUI._on_key_down / _on_key_up for a mapped key
on_key_down(s, key) == key_pressed([s EXCEPT !.keys[key] = TRUE], key)

\* _on_key_up leaving the pressed-mask alone
on_key_up_keeps_mask(s, key) == key_released(s, key)

on_key_up(s, key) == key_released([s EXCEPT !.keys[key] = FALSE], key)

(***************************************************************************)
(* The inputs of the model                                                 *)
(***************************************************************************)
\* ROM images handed to load_rom, as <<name, bytes>>
Scenario4Rom == << 34, 6,  18, 4,  0, 238 >>

Scenario6Rom == << 240, 10,  96, 170 >>

\* CALL 206; EXIT; 0000; 206: CALL 20A; RET; 20A: RET
NestedCallRom == << 34, 6,  0, 253,  0, 0,  34, 10,  0, 238,  0, 238 >>

\* CALL 200, for ever
RecurseRom == << 34, 0 >>

\* RET on an empty stack
UnderflowRom == << 0, 238 >>

\* V0 = FF; VF = 0; JP V0, FFF
JumpOffsetRom == << 96, 255,  191, 255 >>

\* JP FFE: the last instruction slot of memory
TopOfMemoryRom == << 31, 254 >>

\* JP FFF: no instruction fits
PastTopRom == << 31, 255 >>

\* V0 = 2; DT = V0; ST = V0; I = 050; draw the glyph; wait for a key into V1;
\* draw again; EXIT
TimerKeyRom ==
    << 96, 2,  240, 21,  240, 24,  160, 80,  209, 21,  241, 10,
       209, 21,  0, 253 >>

\* V0 = 5; FX75 saves V0 to the RPL flags; EXIT
RplRom == << 96, 5,  240, 117,  0, 253 >>

\* scenario 5: V0 = 0A; DT = V0; 204: V0 = DT; SE V0, 0; JP 204
Scenario5Rom == << 96, 10,  240, 21,  240, 7,  48, 0,  18, 4 >>

BigRom == [k \in 1..(memory_size - program_start + 1) |-> 0]

Roms ==
    { <<"scenario4", Scenario4Rom>>, <<"scenario6", Scenario6Rom>>,
      <<"nested", NestedCallRom>>, <<"recurse", RecurseRom>>,
      <<"underflow", UnderflowRom>>, <<"jumpoffset", JumpOffsetRom>>,
      <<"top", TopOfMemoryRom>>, <<"pasttop", PastTopRom>>,
      <<"timerkey", TimerKeyRom>>, <<"big", BigRom>>,
      <<"rpl", RplRom>> }

\* the ROM images of the timer specification
TimerRoms == { <<"scenario5", Scenario5Rom>>, <<"timerkey", TimerKeyRom>> }

\* the hex keys the host presses and releases
PressKeys == {7, 15}

\* the values random.randint(0, 255) is taken to return
RandBytes == {0, 165, 255}

\* the machine would fetch and execute on the next cycle()
Runnable(s) == ~s.halted /\ ~s.waiting_for_key /\ s.pc < memory_size - 1

IsRandom(s) ==
    ~s.halted /\ ~s.waiting_for_key /\ s.pc < memory_size - 1
    /\ fetch(s) \div 4096 = 12

(***************************************************************************)
(* Chip8GUI and Chip8Display as constructed                                *)
(***************************************************************************)
cpu_frequency == 500
target_fps == 60
speed_multiplier == 1
cycles_per_frame == (cpu_frequency * speed_multiplier) \div target_fps

\* Chip8Display._create_pixels: every rectangle of the grid in pixel_off
BlankCanvas(width, height) ==
    [width |-> width, height |-> height,
     rows |-> [y \in 0..(height - 1) |-> {}]]

\* The harness before a ROM is opened: no thread is running.  emu, tk are the
\* positions of the CPU thread and of the Tk event thread; remaining, x, key
\* and row are the locals of the code they are in; boundaries records the
\* framebuffers the machine has had between two instructions.  timer is the
\* position of the timer thread and loaded the value it has read for its
\* decrement; cpu_threads and timer_threads count the threads started, starts
\* the _start_emulation calls; closed holds after _on_close.
GuiBuilt ==
    [emu_running |-> FALSE, paused |-> FALSE,
     emu |-> "none", remaining |-> 0, x |-> 0,
     tk |-> "idle", key |-> 0, row |-> 0,
     canvas |-> BlankCanvas(lores_width, lores_height),
     boundaries |-> {},
     timer |-> "none", loaded |-> 0,
     cpu_threads |-> 0, timer_threads |-> 0, starts |-> 0,
     closed |-> FALSE]

(***************************************************************************)
(* The specification: a machine built with either quirk set, driven by the *)
(* host through its entry points in any order                              *)
(***************************************************************************)
Init ==
    /\ \E config \in Configs : cpu = reset(config)
    /\ result = "None"
    /\ gui = GuiBuilt

Reset ==
    /\ cpu' = reset(cpu.config)
    /\ result' = "None"
    /\ UNCHANGED gui

LoadRom ==
    \E rom \in Roms :
        /\ cpu' = load_rom(cpu, rom[2], rom[1])
        /\ result' = IF load_rom_raises(rom[2]) THEN "ValueError" ELSE "None"
        /\ UNCHANGED gui

Cycle ==
    /\ cpu.cycles < MaxCycles
    /\ \E rnd \in (IF IsRandom(cpu) THEN RandBytes ELSE {0}) :
          /\ cpu' = cycle(cpu, rnd).cpu
          /\ result' = cycle(cpu, rnd).result
    /\ UNCHANGED gui

KeyDown ==
    \E key \in PressKeys :
        /\ cpu' = on_key_down(cpu, key)
        /\ result' = "None"
        /\ UNCHANGED gui

KeyUp ==
    \E key \in PressKeys :
        /\ cpu' = on_key_up(cpu, key)
        /\ result' = "None"
        /\ UNCHANGED gui

UpdateTimers ==
    /\ cpu' = update_timers(cpu)
    /\ result' = "None"
    /\ UNCHANGED gui

\* a save state written and read back at once
SaveRestore ==
    /\ cpu' = load_state(cpu, get_state(cpu))
    /\ result' = "None"
    /\ UNCHANGED gui

Next ==
    \/ Reset
    \/ LoadRom
    \/ Cycle
    \/ KeyDown
    \/ KeyUp
    \/ UpdateTimers
    \/ SaveRestore

Spec == Init /\ [][Next]_vars

(***************************************************************************)
(* The same machine and entry points with the programs that run the       *)
(* timers: scenario 5 and the timer and key-wait program                   *)
(***************************************************************************)
LoadTimerRom ==
    \E rom \in TimerRoms :
        /\ cpu' = load_rom(cpu, rom[2], rom[1])
        /\ result' = "None"
        /\ UNCHANGED gui

TimerNext ==
    \/ Reset
    \/ LoadTimerRom
    \/ Cycle
    \/ KeyDown
    \/ KeyUp
    \/ UpdateTimers
    \/ SaveRestore

TimerSpec == Init /\ [][TimerNext]_vars

(***************************************************************************)
(* The machine running one short program at a time: each program sets the  *)
(* machine up and ends with the instruction under study                    *)
(***************************************************************************)
\* I = glyph 0; draw it at (0, 0); then 00FF or 00FE, in either mode
ModePrograms ==
    { <<"mode", << 160, 80,  208, 5,  0, 255 >> >>,
      <<"mode", << 160, 80,  208, 5,  0, 254 >> >>,
      <<"mode", << 0, 255,  160, 80,  208, 5,  0, 254 >> >>,
      <<"mode", << 0, 255,  160, 80,  208, 5,  0, 255 >> >> }

\* 32 bytes of sprite: rows FF, 81, FF, ... of an 8-wide sprite, rows FF81 of
\* the 16x16 sprite
SpriteData == [k \in 1..32 |-> IF k % 2 = 1 THEN 255 ELSE 129]

\* the start coordinates, the sprite heights and the register pairs of DXYN
Coordinates == {0, 1, 60, 126, 255}
SpriteHeights == {0, 2, 5}
DrawRegs == { <<1, 2>>, <<15, 2>>, <<1, 15>> }

\* [00FF;] VX = vx; VY = vy; I = sprite; DXYN; DXYN; EXIT; the sprite
DrawProgram(hires, X, Y, vx, vy, n) ==
    LET prefix == IF hires THEN << 0, 255 >> ELSE << >>
        sprite == program_start + Len(prefix) + 12
    IN prefix
       \o << 96 + X, vx,  96 + Y, vy,  160 + sprite \div 256, sprite % 256,
             208 + X, Y * 16 + n,  208 + X, Y * 16 + n,  0, 253 >>
       \o SpriteData

DrawPrograms ==
    { <<"draw", DrawProgram(hires, r[1], r[2], vx, vy, n)>> :
        hires \in BOOLEAN, r \in DrawRegs,
        vx \in Coordinates, vy \in Coordinates, n \in SpriteHeights }

\* the instructions that address memory through i: FX33, FX55, FX65, 5XY2,
\* 5XY3 and DXYN, here with X = 0, Y = 2 and N = 5
IndexOps ==
    { << 240, 51 >>, << 242, 85 >>, << 242, 101 >>,
      << 80, 34 >>, << 80, 35 >>, << 208, 37 >> }

\* I = 0xFFF [; V0 = 0xFF; I += V0]; the instruction; EXIT
IndexPrograms ==
    { <<"index", << 175, 255 >> \o op \o << 0, 253 >> >> : op \in IndexOps }
    \cup { <<"index", << 175, 255,  96, 255,  240, 30 >> \o op \o << 0, 253 >> >> :
             op \in IndexOps }

\* opcodes that match no instruction: 0000, 0123, 5XY1, 5XYF, 8XY8..8XYD,
\* 8XYF (also with X = 0xF), 9XY1, 9XYF, EX00, EX9F, EXA0, FX00, FX08, FX56,
\* FXFF
UnknownOps ==
    { << 0, 0 >>, << 1, 35 >>, << 81, 33 >>, << 81, 47 >>,
      << 129, 40 >>, << 129, 41 >>, << 129, 42 >>, << 129, 43 >>,
      << 129, 44 >>, << 129, 45 >>, << 129, 47 >>, << 143, 40 >>,
      << 143, 47 >>, << 145, 33 >>, << 145, 47 >>,
      << 225, 0 >>, << 225, 159 >>, << 225, 160 >>,
      << 241, 0 >>, << 241, 8 >>, << 241, 86 >>, << 255, 255 >> }

\* V1 = 5; V2 = 7; VF = 1; DT = V1; ST = V2; I = glyph 0; draw it at (5, 7);
\* CALL the next address; the opcode; EXIT
UnknownPrograms ==
    { <<"unknown", << 97, 5,  98, 7,  111, 1,  241, 21,  242, 24,  160, 80,
                      209, 37,  34, 16 >> \o op \o << 0, 253 >> >> :
        op \in UnknownOps }

\* the operands, the register pairs and the n of the 8XYn programs
Operands == {0, 1, 128, 255}
AluRegs == { <<1, 2>>, <<15, 2>>, <<1, 15>>, <<3, 3>> }
AluOps == {0, 1, 2, 3, 4, 5, 6, 7, 14}

\* VF = 1; VX = a; VY = b; 8XYn; EXIT
AluPrograms ==
    { <<"alu", << 111, 1,  96 + r[1], a,  96 + r[2], b,
                  128 + r[1], r[2] * 16 + n,  0, 253 >> >> :
        r \in AluRegs, a \in Operands, b \in Operands, n \in AluOps }

\* VF = 1; VX = a; 7XNN; EXIT
AddPrograms ==
    { <<"add", << 111, 1,  96 + X, a,  112 + X, nn,  0, 253 >> >> :
        X \in {1, 15}, a \in Operands, nn \in Operands }

\* the number of FX1E that take i from 0xFFF past 0xFFFF in steps of 0xFF
WrapAdds == 241

\* V0 = 0xFF; I = 0xFFF; WrapAdds times I += V0; EXIT
WrapProgram ==
    << 96, 255,  175, 255 >>
    \o [k \in 1..(2 * WrapAdds) |-> IF k % 2 = 1 THEN 240 ELSE 30]
    \o << 0, 253 >>

\* V0 = 0xFF; DT = V0; wait for a key into V1; EXIT
WaitProgram == << 96, 255,  240, 21,  241, 10,  0, 253 >>

\* 00FB, 00FC, 00C2, 00D2, 00E0, 00FE, 00FF and D125
DisplayOps ==
    { << 0, 251 >>, << 0, 252 >>, << 0, 194 >>, << 0, 210 >>,
      << 0, 224 >>, << 0, 254 >>, << 0, 255 >>, << 209, 37 >> }

\* where the glyph of the display programs is drawn, as <<x, y>>
ScrollOrigins == { <<60, 28>>, <<64, 0>>, <<124, 60>> }

\* [00FF;] V1 = x; V2 = y; I = glyph 0; D125; two display instructions; EXIT
ScrollPrograms ==
    { <<"scroll", (IF hires THEN << 0, 255 >> ELSE << >>)
                  \o << 97, o[1],  98, o[2],  160, 80,  209, 37 >>
                  \o op1 \o op2 \o << 0, 253 >> >> :
        hires \in BOOLEAN, o \in ScrollOrigins,
        op1 \in DisplayOps, op2 \in DisplayOps }

\* the X of the FX55 / FX65 programs
TransferRegs == {0, 2, 15}

\* I = small font; V0..VF = its first 16 bytes; I = 0x300; FX55;
\* I = large font; FY65; EXIT
TransferPrograms ==
    { <<"transfer", << 160, 80,  255, 101,  163, 0,  240 + X, 85,
                       160, 160,  240 + Y, 101,  0, 253 >> >> :
        X \in TransferRegs, Y \in TransferRegs }

Programs ==
    ModePrograms \cup DrawPrograms \cup IndexPrograms \cup UnknownPrograms
    \cup TransferPrograms \cup ScrollPrograms
    \cup AluPrograms \cup AddPrograms
    \cup { <<"wrap", WrapProgram>>, <<"wait", WaitProgram>> }

\* the longest program, WrapProgram, ends after WrapAdds + 3 cycles
MaxSteps == 250

ProgInit ==
    /\ \E config \in Configs, prog \in Programs :
          cpu = load_rom(reset(config), prog[2], prog[1])
    /\ result = "None"
    /\ gui = GuiBuilt

\* cycle() while pc is inside the program
ProgStep ==
    /\ cpu.pc < program_start + cpu.rom_size
    /\ cpu.cycles < MaxSteps
    /\ \E rnd \in (IF IsRandom(cpu) THEN RandBytes ELSE {0}) :
          /\ cpu' = cycle(cpu, rnd).cpu
          /\ result' = cycle(cpu, rnd).result
    /\ UNCHANGED gui

\* key_pressed(key) called on the machine directly
KeyPressed ==
    \E key \in PressKeys :
        /\ cpu' = key_pressed(cpu, key)
        /\ result' = "None"
        /\ UNCHANGED gui

ProgNext ==
    \/ ProgStep
    \/ KeyPressed
    \/ UpdateTimers

ProgSpec == ProgInit /\ [][ProgNext]_vars

(***************************************************************************)
(* The GUI harness.  _load_rom loads a ROM and _start_emulation starts the *)
(* CPU thread (_emulation_loop) and the timer thread (_timer_loop) and     *)
(* schedules _render_loop on the Tk event thread, which also runs the key  *)
(* handlers.  The threads share the machine with no lock; a step of the    *)
(* model is a stretch of one thread's code that the others may interrupt   *)
(* before and after.  An instruction other than FX0A is taken in one step. *)
(***************************************************************************)
\* 6A03 VA = 3; FA15 DT = VA; F10A key into V1; F20A key into V2; EXIT
KeyWaitRom == << 106, 3,  250, 21,  241, 10,  242, 10,  0, 253 >>

\* A050 I = glyph 0; D005 draw it at (0, 0); 00E0 CLS; 00FF hires; F10A
RenderRom == << 160, 80,  208, 5,  0, 224,  0, 255,  241, 10 >>

\* _load_rom followed by _start_emulation
Started(config, data, name) ==
    /\ cpu = load_rom(reset(config), data, name)
    /\ result = "None"
    /\ gui = [GuiBuilt EXCEPT !.emu_running = TRUE, !.emu = "test",
                              !.boundaries = {BlankDisplay},
                              !.timer = "test", !.cpu_threads = 1,
                              !.timer_threads = 1, !.starts = 1]

IsKeyWait(s) ==
    Runnable(s) /\ fetch(s) \div 4096 = 15 /\ fetch(s) % 256 = 10

\* the for loop of _emulation_loop after a cycle() call that returned res:
\* an exception ends the thread, False breaks out of the batch
AfterCycle(g, res, display) ==
    IF res = "IndexError" THEN [g EXCEPT !.emu = "dead", !.remaining = 0]
    ELSE IF res = "False" \/ g.remaining = 1
    THEN [g EXCEPT !.emu = "test", !.remaining = 0,
                   !.boundaries = @ \cup {display}]
    ELSE [g EXCEPT !.emu = "cycle", !.remaining = @ - 1,
                   !.boundaries = @ \cup {display}]

\* the test of _emulation_loop without paused
BatchStarts_ignores_pause(g, s) == ~s.halted

\* if not self.paused and not self.cpu.halted
BatchStarts(g, s) == ~g.paused /\ ~s.halted

\* the while test of _emulation_loop and the start of a frame's batch
EmuLoop ==
    /\ gui.emu = "test"
    /\ gui' = IF ~gui.emu_running THEN [gui EXCEPT !.emu = "ended"]
              ELSE IF BatchStarts(gui, cpu)
              THEN [gui EXCEPT !.emu = "cycle",
                               !.remaining = cycles_per_frame * speed_multiplier]
              ELSE gui
    /\ UNCHANGED <<cpu, result>>

\* one cpu.cycle() of the batch; FX0A is left after its first store
EmuCycle ==
    /\ gui.emu = "cycle"
    /\ cpu.cycles < MaxCycles
    /\ IF IsKeyWait(cpu)
       THEN /\ cpu' = [cpu EXCEPT !.waiting_for_key = TRUE]
            /\ gui' = [gui EXCEPT !.emu = "fx0a",
                                  !.x = (fetch(cpu) \div 256) % 16]
            /\ UNCHANGED result
       ELSE \E rnd \in (IF IsRandom(cpu) THEN RandBytes ELSE {0}) :
               /\ cpu' = cycle(cpu, rnd).cpu
               /\ result' = cycle(cpu, rnd).result
               /\ gui' = AfterCycle(gui, cycle(cpu, rnd).result,
                                    cycle(cpu, rnd).cpu.display)

\* the rest of FX0A and of its cycle(): key_register = x, cycles += 1
EmuFx0a ==
    /\ gui.emu = "fx0a"
    /\ cpu' = [cpu EXCEPT !.key_register = gui.x, !.cycles = @ + 1]
    /\ result' = "True"
    /\ gui' = AfterCycle(gui, "True", cpu.display)

\* _on_key_down up to the test of key_pressed
GuiKeyDown ==
    /\ gui.tk = "idle"
    /\ \E key \in PressKeys :
          /\ cpu' = [cpu EXCEPT !.keys[key] = TRUE]
          /\ gui' = IF cpu.waiting_for_key
                    THEN [gui EXCEPT !.tk = "store", !.key = key]
                    ELSE gui
    /\ UNCHANGED result

\* key_pressed: self.v[self.key_register] = key
GuiKeyStore ==
    /\ gui.tk = "store"
    /\ cpu' = [cpu EXCEPT !.v[cpu.key_register] = gui.key]
    /\ gui' = [gui EXCEPT !.tk = "clear"]
    /\ UNCHANGED result

\* key_pressed: self.waiting_for_key = False
GuiKeyClear ==
    /\ gui.tk = "clear"
    /\ cpu' = [cpu EXCEPT !.waiting_for_key = FALSE]
    /\ gui' = [gui EXCEPT !.tk = "advance"]
    /\ UNCHANGED result

\* key_pressed: self.pc += 2
GuiKeyAdvance ==
    /\ gui.tk = "advance"
    /\ cpu' = [cpu EXCEPT !.pc = @ + 2]
    /\ gui' = [gui EXCEPT !.tk = "idle", !.key = 0]
    /\ UNCHANGED result

\* _on_key_up
GuiKeyUp ==
    /\ gui.tk = "idle"
    /\ \E key \in PressKeys : cpu' = on_key_up(cpu, key)
    /\ UNCHANGED <<result, gui>>

\* one turn of _timer_loop
TimerTick ==
    /\ gui.emu_running
    /\ ~gui.paused
    /\ cpu' = update_timers(cpu)
    /\ UNCHANGED <<result, gui>>

GuiInit ==
    \E config \in Configs : Started(config, KeyWaitRom, "keywait")

GuiNext ==
    \/ EmuLoop
    \/ EmuCycle
    \/ EmuFx0a
    \/ GuiKeyDown
    \/ GuiKeyStore
    \/ GuiKeyClear
    \/ GuiKeyAdvance
    \/ GuiKeyUp
    \/ TimerTick

\* the CPU thread, the timer thread and the key events of the Tk thread
GuiSpec == GuiInit /\ [][GuiNext]_vars

\* the part of framebuffer `display` a canvas of the given size shows
Frame(display, width, height) ==
    [y \in 0..(height - 1) |-> display[y] \cap 0..(width - 1)]

\* Chip8Display.set_resolution: a change of size recreates the grid
set_resolution(canvas, width, height) ==
    IF canvas.width # width \/ canvas.height # height
    THEN BlankCanvas(width, height)
    ELSE canvas

\* _render_loop up to the first row of Chip8Display.render
RenderBegin ==
    /\ gui.tk = "idle"
    /\ gui.emu_running
    /\ gui' = IF cpu.draw_flag
              THEN [gui EXCEPT
                      !.tk = "render", !.row = 0,
                      !.canvas =
                          IF cpu.hires_mode
                          THEN set_resolution(@, hires_width, hires_height)
                          ELSE set_resolution(@, lores_width, lores_height)]
              ELSE gui
    /\ UNCHANGED <<cpu, result>>

\* Chip8Display.render: one row of the framebuffer painted on the canvas
RenderRow ==
    /\ gui.tk = "render"
    /\ gui' = [gui EXCEPT
                 !.canvas.rows[gui.row] =
                     cpu.display[gui.row] \cap 0..(gui.canvas.width - 1),
                 !.row = IF gui.row + 1 = gui.canvas.height THEN 0 ELSE @ + 1,
                 !.tk = IF gui.row + 1 = gui.canvas.height
                        THEN "flag" ELSE "render"]
    /\ UNCHANGED <<cpu, result>>

\* _render_loop after render(): self.cpu.draw_flag = False
RenderEnd ==
    /\ gui.tk = "flag"
    /\ cpu' = [cpu EXCEPT !.draw_flag = FALSE]
    /\ gui' = [gui EXCEPT !.tk = "idle"]
    /\ UNCHANGED result

RenderInit ==
    \E config \in Configs : Started(config, RenderRom, "render")

RenderNext ==
    \/ EmuLoop
    \/ EmuCycle
    \/ EmuFx0a
    \/ RenderBegin
    \/ RenderRow
    \/ RenderEnd

\* the CPU thread and the render loop of the Tk thread
RenderSpec == RenderInit /\ [][RenderNext]_vars

(***************************************************************************)
(* The harness with its threads: _load_rom, _reset, _toggle_pause and       *)
(* _on_close on the Tk thread, the CPU thread, and the timer thread with    *)
(* update_timers() taken one attribute access at a time, as the two threads *)
(* share the machine without a lock                                         *)
(***************************************************************************)
\* V0 = 2; DT = V0; V0 = 9; DT = V0; ST = V0; V0 = 0; DT = V0; wait for a key
TimersRom == << 96, 2,  240, 21,  96, 9,  240, 21,  240, 24,  96, 0,
                240, 21,  241, 10 >>

\* V0 = 7; I = 0x200; store V0 over the first byte of the ROM; V0 += 1,
\* seven times; EXIT
SelfWriteRom ==
    << 96, 7,  162, 0,  240, 85,  112, 1,  112, 1,  112, 1,  112, 1,
       112, 1,  112, 1,  112, 1,  0, 253 >>

\* V0 = 1; V0 += 0, six times; DT = V0; ST = V0; wait for a key into V1
PauseRom ==
    << 96, 1,  112, 0,  112, 0,  112, 0,  112, 0,  112, 0,  112, 0,
       240, 21,  240, 24,  241, 10 >>

HarnessRoms == { <<"pause", PauseRom>> }

\* the number of _load_rom calls the model follows
MaxStarts == 2

\* _start_emulation without the test of _emu_running
start_emulation_unguarded(g) ==
    [g EXCEPT !.emu_running = TRUE, !.paused = FALSE,
              !.emu = "test", !.cpu_threads = @ + 1,
              !.timer = "test", !.timer_threads = @ + 1]

\* _start_emulation: nothing when the threads are running
start_emulation(g) ==
    IF g.emu_running THEN g
    ELSE [g EXCEPT !.emu_running = TRUE, !.paused = FALSE,
                   !.emu = "test", !.cpu_threads = @ + 1,
                   !.timer = "test", !.timer_threads = @ + 1]

\* _load_rom: cpu.load_rom, then _start_emulation
GuiLoadRom ==
    /\ ~gui.closed
    /\ gui.starts < MaxStarts
    /\ \E rom \in HarnessRoms : cpu' = load_rom(cpu, rom[2], rom[1])
    /\ result' = "None"
    /\ gui' = [start_emulation(gui) EXCEPT !.starts = @ + 1]

\* the bytes _reset reads back from memory[program_start : + rom_size]
RomInMemory(s) ==
    [k \in 1..s.rom_size |-> Byte(s.memory, program_start + k - 1)]

\* _reset: load_rom of the image read back from memory, and a render
GuiReset ==
    /\ ~gui.closed
    /\ cpu.rom_loaded
    /\ cpu' = load_rom(cpu, RomInMemory(cpu), cpu.rom_name)
    /\ result' = "None"
    /\ gui' = [gui EXCEPT !.canvas = BlankCanvas(lores_width, lores_height)]

\* _toggle_pause
GuiTogglePause ==
    /\ ~gui.closed
    /\ gui' = [gui EXCEPT !.paused = ~gui.paused]
    /\ UNCHANGED <<cpu, result>>

\* _on_close
GuiOnClose ==
    /\ ~gui.closed
    /\ gui' = [gui EXCEPT !.emu_running = FALSE, !.closed = TRUE]
    /\ UNCHANGED <<cpu, result>>

\* the while test of _timer_loop and its test of paused
TimerLoop ==
    /\ gui.timer = "test"
    /\ gui' = IF ~gui.emu_running THEN [gui EXCEPT !.timer = "ended"]
              ELSE IF ~gui.paused THEN [gui EXCEPT !.timer = "delay"]
              ELSE gui
    /\ UNCHANGED <<cpu, result>>

\* update_timers: if self.delay_timer > 0
TimerDelayTest ==
    /\ gui.timer = "delay"
    /\ gui' = [gui EXCEPT !.timer = IF cpu.delay_timer > 0
                                    THEN "delay_load" ELSE "sound"]
    /\ UNCHANGED <<cpu, result>>

\* self.delay_timer -= 1: the read
TimerDelayLoad ==
    /\ gui.timer = "delay_load"
    /\ gui' = [gui EXCEPT !.timer = "delay_store", !.loaded = cpu.delay_timer]
    /\ UNCHANGED <<cpu, result>>

\* self.delay_timer -= 1: the write
TimerDelayStore ==
    /\ gui.timer = "delay_store"
    /\ cpu' = [cpu EXCEPT !.delay_timer = gui.loaded - 1]
    /\ gui' = [gui EXCEPT !.timer = "sound", !.loaded = 0]
    /\ UNCHANGED result

\* update_timers: if self.sound_timer > 0
TimerSoundTest ==
    /\ gui.timer = "sound"
    /\ gui' = [gui EXCEPT !.timer = IF cpu.sound_timer > 0
                                    THEN "sound_load" ELSE "test"]
    /\ UNCHANGED <<cpu, result>>

\* self.sound_timer -= 1: the read
TimerSoundLoad ==
    /\ gui.timer = "sound_load"
    /\ gui' = [gui EXCEPT !.timer = "sound_store", !.loaded = cpu.sound_timer]
    /\ UNCHANGED <<cpu, result>>

\* self.sound_timer -= 1: the write, and the end of the turn
TimerSoundStore ==
    /\ gui.timer = "sound_store"
    /\ cpu' = [cpu EXCEPT !.sound_timer = gui.loaded - 1]
    /\ gui' = [gui EXCEPT !.timer = "test", !.loaded = 0]
    /\ UNCHANGED result

\* the window is built with EmulatorConfig() and no ROM
HarnessInit ==
    /\ cpu = reset(DefaultQuirks)
    /\ result = "None"
    /\ gui = GuiBuilt

HarnessThreads ==
    \/ EmuLoop
    \/ EmuCycle
    \/ EmuFx0a
    \/ TimerLoop
    \/ TimerDelayTest
    \/ TimerDelayLoad
    \/ TimerDelayStore
    \/ TimerSoundTest
    \/ TimerSoundLoad
    \/ TimerSoundStore

HarnessNext ==
    \/ GuiLoadRom
    \/ GuiTogglePause
    \/ GuiOnClose
    \/ HarnessThreads

HarnessSpec == HarnessInit /\ [][HarnessNext]_vars

\* the operating system schedules each of the two threads again and again
HarnessFairSpec ==
    /\ HarnessSpec
    /\ WF_vars(EmuLoop \/ EmuCycle \/ EmuFx0a)
    /\ WF_vars(TimerLoop \/ TimerDelayTest \/ TimerDelayLoad
                  \/ TimerDelayStore \/ TimerSoundTest \/ TimerSoundLoad
                  \/ TimerSoundStore)

\* the CPU thread on SelfWriteRom, and Reset and Pause of the Tk thread
ResetInit ==
    \E config \in Configs : Started(config, SelfWriteRom, "selfwrite")

ResetNext ==
    \/ EmuLoop
    \/ EmuCycle
    \/ GuiReset
    \/ GuiTogglePause

ResetSpec == ResetInit /\ [][ResetNext]_vars

\* the CPU thread and the timer thread on TimersRom
TimerRaceInit ==
    \E config \in Configs : Started(config, TimersRom, "timers")

TimerRaceSpec == TimerRaceInit /\ [][HarnessThreads]_vars

(***************************************************************************)
(* chip8_emulator.py: the older core.  In EmulatorSpec the variable cpu     *)
(* holds a chip8_emulator.Chip8CPU; result is "None" after a call that      *)
(* returned and "IndexError" after one that raised.                         *)
(***************************************************************************)
MEMORY_SIZE == 4096
DISPLAY_WIDTH == 64
DISPLAY_HEIGHT == 32
STACK_SIZE == 16
NUM_REGISTERS == 16
NUM_KEYS == 16
PROGRAM_START == 512
FONT_START == 80

\* the 80 bytes of the older core's font are those of FONT_4X5
FONTSET == FONT_4X5

emu_reset ==
    [memory |-> [a \in FONT_START..(FONT_START + Len(FONTSET) - 1) |->
                    FONTSET[a - FONT_START + 1]],
     v |-> [r \in 0..(NUM_REGISTERS - 1) |-> 0],
     i |-> 0,
     pc |-> PROGRAM_START,
     stack |-> [k \in 0..(STACK_SIZE - 1) |-> 0],
     sp |-> 0,
     delay_timer |-> 0,
     sound_timer |-> 0,
     display |-> [y \in 0..(DISPLAY_HEIGHT - 1) |-> {}],
     keys |-> [k \in 0..(NUM_KEYS - 1) |-> FALSE],
     draw_flag |-> FALSE,
     waiting_for_key |-> FALSE,
     key_register |-> 0,
     rom_loaded |-> FALSE,
     rom_name |-> ""]

\* load_rom drops the bytes that do not fit and never raises
emu_load_rom(data, name) ==
    [emu_reset EXCEPT
        !.memory = StoreBlock(emu_reset.memory, PROGRAM_START, Len(data),
                              [k \in 0..(Len(data) - 1) |-> data[k + 1]]),
        !.rom_loaded = TRUE,
        !.rom_name = IF name = "" THEN "Unknown" ELSE name]

\* A list index k is valid from -len to len - 1; a negative one counts from
\* the end of the list.
ListIndexValid(k, len) == k >= -len /\ k < len
ListIndex(k, len) == IF k < 0 THEN k + len ELSE k

\* 00EE: sp is decremented before stack[sp] is read
emu_ret_raises(s) == ~ListIndexValid(s.sp - 1, STACK_SIZE)
emu_ret(s) ==
    IF emu_ret_raises(s) THEN [s EXCEPT !.sp = s.sp - 1]
    ELSE [s EXCEPT !.sp = s.sp - 1,
                   !.pc = s.stack[ListIndex(s.sp - 1, STACK_SIZE)] + 2]

\* 2NNN: stack[sp] is written before sp is incremented
emu_call_raises(s) == ~ListIndexValid(s.sp, STACK_SIZE)
emu_call(s, nnn) ==
    IF emu_call_raises(s) THEN s
    ELSE [s EXCEPT !.stack[ListIndex(s.sp, STACK_SIZE)] = s.pc,
                   !.sp = s.sp + 1,
                   !.pc = nnn]

emu_execute_8xxx(s, x, y, n) ==
    LET vx == s.v[x]
        vy == s.v[y]
        v1 == CASE n = 0 -> [s.v EXCEPT ![x] = vy]
                [] n = 1 -> SetVxThenVF(s.v, x, BitOr(vx, vy), 0)
                [] n = 2 -> SetVxThenVF(s.v, x, BitAnd(vx, vy), 0)
                [] n = 3 -> SetVxThenVF(s.v, x, BitXor(vx, vy), 0)
                [] n = 4 -> SetVxThenVF(s.v, x, (vx + vy) % 256,
                                        IF vx + vy > 255 THEN 1 ELSE 0)
                [] n = 5 -> SetVxThenVF(s.v, x, (vx - vy) % 256,
                                        IF vx >= vy THEN 1 ELSE 0)
                [] n = 6 -> SetVxThenVF(s.v, x, Shr(vx, 1), vx % 2)
                [] n = 7 -> SetVxThenVF(s.v, x, (vy - vx) % 256,
                                        IF vy >= vx THEN 1 ELSE 0)
                [] n = 14 -> SetVxThenVF(s.v, x, Shl(vx, 1) % 256,
                                         Shr(vx, 7) % 2)
                [] OTHER -> s.v
    IN [s EXCEPT !.v = v1, !.pc = s.pc + 2]

emu_execute_fxxx_raises(s, x, nn) ==
    CASE nn = 51 -> BlockRaises(s.i, 3)
      [] nn = 85 -> BlockRaises(s.i, x + 1)
      [] nn = 101 -> BlockRaises(s.i, x + 1)
      [] OTHER -> FALSE

emu_execute_fxxx(s, x, nn) ==
    LET bcd == [idx \in 0..2 |->
                   CASE idx = 0 -> s.v[x] \div 100
                     [] idx = 1 -> (s.v[x] \div 10) % 10
                     [] OTHER -> s.v[x] % 10]
        reg == [idx \in 0..x |-> s.v[idx]]
        s1 == CASE nn = 7 -> [s EXCEPT !.v[x] = s.delay_timer]
                [] nn = 21 -> [s EXCEPT !.delay_timer = s.v[x]]
                [] nn = 24 -> [s EXCEPT !.sound_timer = s.v[x]]
                [] nn = 30 -> [s EXCEPT !.i = (s.i + s.v[x]) % 65536]
                [] nn = 41 -> [s EXCEPT !.i = FONT_START + (s.v[x] % 16) * 5]
                [] nn = 51 ->
                     [s EXCEPT !.memory = StoreBlock(s.memory, s.i, 3, bcd)]
                [] nn = 85 ->
                     [s EXCEPT !.memory = StoreBlock(s.memory, s.i, x + 1, reg)]
                [] nn = 101 ->
                     [s EXCEPT !.v = [r \in 0..(NUM_REGISTERS - 1) |->
                                        IF r <= x /\ s.i + r < MEMORY_SIZE
                                        THEN Byte(s.memory, s.i + r)
                                        ELSE s.v[r]]]
                [] OTHER -> s
    IN IF nn = 10 THEN [s EXCEPT !.waiting_for_key = TRUE, !.key_register = x]
       ELSE IF emu_execute_fxxx_raises(s, x, nn) THEN s1
       ELSE [s1 EXCEPT !.pc = s.pc + 2]

\* the sprite rows _draw_sprite reaches: the loop breaks at the bottom edge
\* before it reads the row's byte, and the read raises outside memory
emu_sprite_rows(s, y, n) ==
    {row \in 0..(n - 1) : (s.v[y] % DISPLAY_HEIGHT) + row < DISPLAY_HEIGHT}
emu_draw_sprite_raises(s, y, n) ==
    \E row \in emu_sprite_rows(s, y, n) : s.i + row >= MEMORY_SIZE

\* the cells row `row` of the sprite toggles in display row py + row
emu_sprite_cells(s, px, row) ==
    {px + col : col \in {c \in 0..7 :
        /\ px + c < DISPLAY_WIDTH
        /\ (Byte(s.memory, s.i + row) \div Pow2(7 - c)) % 2 = 1}}

emu_draw_sprite(s, x, y, n) ==
    LET px == s.v[x] % DISPLAY_WIDTH
        py == s.v[y] % DISPLAY_HEIGHT
        rows == {row \in emu_sprite_rows(s, y, n) : s.i + row < MEMORY_SIZE}
        cells == [dy \in 0..(DISPLAY_HEIGHT - 1) |->
                     IF dy - py \in rows
                     THEN emu_sprite_cells(s, px, dy - py) ELSE {}]
        hit == \E dy \in 0..(DISPLAY_HEIGHT - 1) :
                  cells[dy] \cap s.display[dy] # {}
    IN [s EXCEPT
          !.v[15] = IF hit THEN 1 ELSE 0,
          !.display = [dy \in 0..(DISPLAY_HEIGHT - 1) |->
              (s.display[dy] \ cells[dy]) \cup (cells[dy] \ s.display[dy])],
          !.draw_flag = IF emu_draw_sprite_raises(s, y, n)
                        THEN s.draw_flag ELSE TRUE]

emu_execute_raises(s, opcode) ==
    LET first == opcode \div 4096
    IN CASE opcode = 238 -> emu_ret_raises(s)
         [] first = 2 -> emu_call_raises(s)
         [] first = 13 ->
              emu_draw_sprite_raises(s, (opcode \div 16) % 16, opcode % 16)
         [] first = 15 ->
              emu_execute_fxxx_raises(s, (opcode \div 256) % 16, opcode % 256)
         [] OTHER -> FALSE

\* rnd is the value random.randint(0, 255) returns for CXNN
emu_execute(s, opcode, rnd) ==
    LET nnn == opcode % 4096
        nn == opcode % 256
        n == opcode % 16
        x == (opcode \div 256) % 16
        y == (opcode \div 16) % 16
        first == opcode \div 4096
    IN CASE opcode = 224 ->
              [s EXCEPT !.display = [dy \in 0..(DISPLAY_HEIGHT - 1) |-> {}],
                        !.draw_flag = TRUE,
                        !.pc = s.pc + 2]
         [] opcode = 238 -> emu_ret(s)
         [] first = 1 -> [s EXCEPT !.pc = nnn]
         [] first = 2 -> emu_call(s, nnn)
         [] first = 3 -> skip_if(s, s.v[x] = nn)
         [] first = 4 -> skip_if(s, s.v[x] # nn)
         [] first = 5 /\ n = 0 -> skip_if(s, s.v[x] = s.v[y])
         [] first = 6 -> advance([s EXCEPT !.v[x] = nn])
         [] first = 7 -> advance([s EXCEPT !.v[x] = (s.v[x] + nn) % 256])
         [] first = 8 -> emu_execute_8xxx(s, x, y, n)
         [] first = 9 /\ n = 0 -> skip_if(s, s.v[x] # s.v[y])
         [] first = 10 -> advance([s EXCEPT !.i = nnn])
         [] first = 11 -> [s EXCEPT !.pc = nnn + s.v[0]]
         [] first = 12 -> advance([s EXCEPT !.v[x] = BitAnd(rnd, nn)])
         [] first = 13 ->
              IF emu_draw_sprite_raises(s, y, n) THEN emu_draw_sprite(s, x, y, n)
              ELSE advance(emu_draw_sprite(s, x, y, n))
         [] first = 14 ->
              (CASE nn = 158 -> skip_if(s, s.keys[s.v[x] % 16])
                 [] nn = 161 -> skip_if(s, ~s.keys[s.v[x] % 16])
                 [] OTHER -> advance(s))
         [] first = 15 -> emu_execute_fxxx(s, x, nn)
         [] OTHER -> advance(s)

\* the fetch reads memory[pc] and memory[pc + 1]
emu_fetch_raises(s) == s.pc + 1 >= MEMORY_SIZE
emu_fetch(s) == Byte(s.memory, s.pc) * 256 + Byte(s.memory, s.pc + 1)

\* cycle(): the machine the call leaves and whether it returned or raised
emu_cycle(s, rnd) ==
    IF s.waiting_for_key THEN [cpu |-> s, result |-> "None"]
    ELSE IF emu_fetch_raises(s) THEN [cpu |-> s, result |-> "IndexError"]
    ELSE [cpu |-> emu_execute(s, emu_fetch(s), rnd),
          result |-> IF emu_execute_raises(s, emu_fetch(s))
                     THEN "IndexError" ELSE "None"]

emu_key_pressed(s, key) ==
    IF s.waiting_for_key
    THEN [s EXCEPT !.v[s.key_register] = key,
                   !.waiting_for_key = FALSE,
                   !.pc = s.pc + 2]
    ELSE s

emu_update_timers(s) ==
    [s EXCEPT
        !.delay_timer = IF s.delay_timer > 0 THEN s.delay_timer - 1 ELSE 0,
        !.sound_timer = IF s.sound_timer > 0 THEN s.sound_timer - 1 ELSE 0]

\* RET on the empty stack; CALL of itself, 17 deep; CALL 0x208 and RET to
\* V0 = 3; DT = V0; wait for a key into V1, then RET on the empty stack
EmulatorRoms ==
    { <<"ret", << 0, 238 >> >>,
      <<"call", << 34, 0 >> >>,
      <<"callret", << 34, 8,  96, 3,  240, 21,  241, 10,  0, 238 >> >> }

EmulatorInit ==
    /\ \E rom \in EmulatorRoms : cpu = emu_load_rom(rom[2], rom[1])
    /\ result = "None"
    /\ gui = GuiBuilt

\* cycle(), until one raises (the thread that called it has ended)
EmulatorCycle ==
    /\ result # "IndexError"
    /\ \E rnd \in (IF emu_fetch(cpu) \div 4096 = 12 /\ ~cpu.waiting_for_key
                   THEN RandBytes ELSE {0}) :
          /\ cpu' = emu_cycle(cpu, rnd).cpu
          /\ result' = emu_cycle(cpu, rnd).result
    /\ UNCHANGED gui

EmulatorKeyPressed ==
    \E key \in PressKeys :
        /\ cpu' = emu_key_pressed(cpu, key)
        /\ UNCHANGED <<result, gui>>

EmulatorUpdateTimers ==
    /\ cpu' = emu_update_timers(cpu)
    /\ UNCHANGED <<result, gui>>

EmulatorNext ==
    \/ EmulatorCycle
    \/ EmulatorKeyPressed
    \/ EmulatorUpdateTimers

EmulatorSpec == EmulatorInit /\ [][EmulatorNext]_vars

(***************************************************************************)
(* Properties                                                              *)
(***************************************************************************)
\* every field but the two named ones, for "nothing else changes"
Except2(s, halted, cycles) == [s EXCEPT !.halted = halted, !.cycles = cycles]

\* C1: once halted, cycle() returns False and changes no field of the
\* machine; halted stays true through cycle(), key presses and releases and
\* update_timers(); only reset(), load_rom() or load_state() clear it.
C1_HaltedAbsorbing ==
    [][cpu.halted =>
          /\ (Cycle => cpu' = cpu /\ result' = "False")
          /\ (Cycle \/ KeyDown \/ KeyUp \/ UpdateTimers => cpu'.halted)
          /\ (~cpu'.halted => Reset \/ LoadRom \/ SaveRestore)]_vars

\* a cycle() call made on a machine that EXIT halted with a glyph drawn
C1_Witness ==
    /\ cpu.halted
    /\ result = "False"
    /\ cpu.rom_name = "timerkey"
    /\ cpu.display[0] # {}
    /\ cpu.cycles = 8

\* C2: halted and waiting_for_key are never both true.
C2_HaltedXorWaiting == ~(cpu.halted /\ cpu.waiting_for_key)

\* a machine halted by EXIT after it had waited for a key and received key F
C2_Witness ==
    /\ cpu.halted
    /\ ~cpu.waiting_for_key
    /\ cpu.rom_name = "timerkey"
    /\ cpu.v[1] = 15

\* C3: after every cycle() either pc < memory_size or halted is true.
C3_PcInMemoryUnlessHalted ==
    result \in {"True", "False"} => (cpu.pc < memory_size \/ cpu.halted)

\* C4: 0 <= sp <= stack_size after every cycle(), whatever the nesting.
C4_StackPointerRange == cpu.sp \in 0..stack_size

\* sixteen nested CALLs and the seventeenth refused
C4_Witness ==
    /\ cpu.sp = stack_size
    /\ cpu.halted
    /\ cpu.cycles = stack_size + 1

\* the hard-fault conditions of a runnable machine
CallOverflow(s) == Runnable(s) /\ fetch(s) \div 4096 = 2 /\ s.sp = stack_size
RetUnderflow(s) == Runnable(s) /\ fetch(s) = 238 /\ s.sp = 0
ExitOpcode(s) == Runnable(s) /\ fetch(s) = 253
FetchFault(s) ==
    ~s.halted /\ ~s.waiting_for_key /\ s.pc >= memory_size - 1

\* C5: CALL with sp = 16, RET with sp = 0, a fetch at pc >= memory_size - 1
\* and EXIT each set halted and leave pc, sp, the stack, the registers, i,
\* memory, the timers, the display, the keys and the key wait as they were.
C5_HardFaultsOnlyHalt ==
    [][(Cycle /\ ( \/ CallOverflow(cpu) \/ RetUnderflow(cpu)
                   \/ ExitOpcode(cpu) \/ FetchFault(cpu) )) =>
          /\ cpu'.halted
          /\ Except2(cpu', FALSE, 0) = Except2(cpu, FALSE, 0)]_vars

\* the CALL fault taken with a full stack of return addresses
C5_Witness ==
    /\ cpu.halted
    /\ cpu.sp = stack_size
    /\ cpu.rom_name = "recurse"
    /\ cpu.pc = program_start
    /\ \A k \in 0..(stack_size - 1) : cpu.stack[k] = program_start

\* C6: CALL at address a with sp = s < 16 stores a in stack[s] and leaves the
\* frames below untouched; RET resumes at stack[sp - 1] + 2 and pops exactly
\* that frame; nothing else the host or the program does touches the frames
\* below sp, so returns are taken last in, first out, each to its CALL + 2.
C6_CallRetDiscipline ==
    [][(Cycle \/ KeyDown \/ KeyUp \/ UpdateTimers) =>
          IF Runnable(cpu) /\ Cycle /\ fetch(cpu) \div 4096 = 2
                /\ cpu.sp < stack_size
          THEN /\ cpu'.stack = [cpu.stack EXCEPT ![cpu.sp] = cpu.pc]
               /\ cpu'.sp = cpu.sp + 1
               /\ cpu'.pc = fetch(cpu) % 4096
          ELSE IF Runnable(cpu) /\ Cycle /\ fetch(cpu) = 238 /\ cpu.sp > 0
          THEN /\ cpu'.pc = cpu.stack[cpu.sp - 1] + 2
               /\ cpu'.sp = cpu.sp - 1
               /\ cpu'.stack = cpu.stack
          ELSE /\ cpu'.stack = cpu.stack
               /\ cpu'.sp = cpu.sp]_vars

\* two nested CALLs returned from in reverse order, back after the first CALL
C6_Witness ==
    /\ cpu.rom_name = "nested"
    /\ cpu.cycles = 4
    /\ cpu.pc = program_start + 2
    /\ cpu.sp = 0
    /\ cpu.stack[0] = program_start
    /\ cpu.stack[1] = program_start + 6

\* the machine of scenario 4 after exactly three executed cycle() calls
Scenario4After3 == cpu.rom_name = "scenario4" /\ cpu.cycles = 3

\* C7, as the scenario table states it: pc = 0x204 and sp = 0 after 3 cycles.
C7_Scenario4AsStated ==
    Scenario4After3 => cpu.pc = 516 /\ cpu.sp = 0

\* C7, amended: the CALL targets 0x206, past the six bytes of the program, so
\* the second and third cycle execute the zero words at 0x206 and 0x208; after
\* 3 cycles pc = 0x20A, sp = 1 and stack[0] holds the CALL's address 0x200.
C7_Scenario4 ==
    Scenario4After3 => cpu.pc = 522 /\ cpu.sp = 1 /\ cpu.stack[0] = 512

C7_Witness == Scenario4After3 /\ result = "True" /\ ~cpu.halted

\* C8: FX0A sets waiting_for_key and key_register = x and leaves pc on the
\* instruction; while waiting, cycle() returns False and changes nothing,
\* update_timers() still counts nonzero timers down, and only a key press,
\* reset(), load_rom() or load_state() end the wait.
C8_KeyWaitSuspends ==
    [][/\ (Cycle /\ Runnable(cpu) /\ fetch(cpu) \div 4096 = 15
                 /\ fetch(cpu) % 256 = 10) =>
             /\ cpu' = [cpu EXCEPT !.waiting_for_key = TRUE,
                                   !.key_register = (fetch(cpu) \div 256) % 16,
                                   !.cycles = cpu.cycles + 1]
             /\ result' = "True"
       /\ cpu.waiting_for_key =>
             /\ (Cycle => cpu' = cpu /\ result' = "False")
             /\ (UpdateTimers =>
                    /\ cpu'.waiting_for_key
                    /\ cpu'.delay_timer =
                         IF cpu.delay_timer > 0 THEN cpu.delay_timer - 1 ELSE 0
                    /\ cpu'.sound_timer =
                         IF cpu.sound_timer > 0 THEN cpu.sound_timer - 1 ELSE 0)
             /\ (~cpu'.waiting_for_key =>
                    KeyDown \/ Reset \/ LoadRom \/ SaveRestore)]_vars

\* a blocked cycle() on a machine waiting in F10A whose timers, set to 2, have
\* run down during the wait
C8_Witness ==
    /\ cpu.waiting_for_key
    /\ cpu.key_register = 1
    /\ result = "False"
    /\ cpu.rom_name = "timerkey"
    /\ cpu.cycles = 6
    /\ cpu.delay_timer = 0
    /\ cpu.pc = program_start + 10

\* C9: a key press during a key wait writes the key into v[key_register],
\* clears the wait and advances pc by 2; a key press outside a key wait
\* (a second press, or a press on a halted machine) changes nothing but the
\* pressed-mask.
C9_KeyPressLatch ==
    [][\A key \in PressKeys :
          (cpu' = on_key_down(cpu, key)) =>
              IF cpu.waiting_for_key
              THEN cpu' = [cpu EXCEPT !.keys[key] = TRUE,
                                      !.v[cpu.key_register] = key,
                                      !.waiting_for_key = FALSE,
                                      !.pc = cpu.pc + 2]
              ELSE cpu' = [cpu EXCEPT !.keys[key] = TRUE]]_vars

\* key F delivered to the wait of F10A, then key 7 pressed with no wait
C9_Witness ==
    /\ cpu.rom_name = "timerkey"
    /\ cpu.v[1] = 15
    /\ cpu.keys[15]
    /\ cpu.keys[7]
    /\ ~cpu.waiting_for_key
    /\ cpu.pc = program_start + 12
    /\ cpu.cycles = 6

\* the machine of scenario 6 after FX0A, key 7 and one more executed cycle;
\* draw_flag is false only if no save state was loaded since the ROM was
\* (this program draws nothing)
Scenario6Stepped ==
    /\ cpu.rom_name = "scenario6"
    /\ cpu.cycles = 2
    /\ ~cpu.draw_flag
    /\ cpu.keys[7]
    /\ ~cpu.keys[15]

\* C10, as the scenario table states it: v[0] = 0x07 and pc = 0x204.
C10_Scenario6AsStated ==
    Scenario6Stepped => cpu.v[0] = 7 /\ cpu.pc = 516

\* C10, amended: the key press itself stores 0x07 and moves pc to 0x202; the
\* one further step executes 60AA, so v[0] = 0xAA and pc = 0x204.
C10_Scenario6 ==
    Scenario6Stepped => cpu.v[0] = 170 /\ cpu.pc = 516

C10_Witness == Scenario6Stepped /\ result = "True"

\* the instruction at pc is an FX0A
KeyWaitOpcode(s) == fetch(s) \div 4096 = 15 /\ fetch(s) % 256 = 10

\* C11: with cycle() on the CPU thread and key_pressed() on the Tk thread, a
\* key press that ends a key wait stores the key in register x of the FX0A
\* the machine is waiting in, never in a key_register left by an earlier
\* FX0A, and moves pc from that FX0A to the instruction after it.
C11_NoTornKeyWait ==
    [][/\ GuiKeyStore =>
             /\ KeyWaitOpcode(cpu)
             /\ cpu'.v = [cpu.v EXCEPT ![(fetch(cpu) \div 256) % 16] = gui.key]
       /\ GuiKeyAdvance =>
             /\ KeyWaitOpcode(cpu)
             /\ cpu'.pc = cpu.pc + 2]_vars

\* the instruction a runnable machine is about to execute is FX15
SetsDelayTimer(s) ==
    Runnable(s) /\ fetch(s) \div 4096 = 15 /\ fetch(s) % 256 = 21

\* C12: update_timers() takes 1 from each nonzero timer and leaves a zero
\* timer at zero, whether or not the machine is halted or waiting for a key;
\* FX15 sets delay_timer to v[x], and nothing but update_timers(), FX15,
\* reset() and load_rom() changes delay_timer: so after FX15 with v[x] = k
\* the timer reaches 0 after exactly k calls of update_timers(), not earlier.
C12_TimersCountDown ==
    [][/\ UpdateTimers =>
             /\ cpu'.delay_timer =
                  IF cpu.delay_timer > 0 THEN cpu.delay_timer - 1 ELSE 0
             /\ cpu'.sound_timer =
                  IF cpu.sound_timer > 0 THEN cpu.sound_timer - 1 ELSE 0
       /\ (Cycle /\ SetsDelayTimer(cpu)) =>
             cpu'.delay_timer = cpu.v[(fetch(cpu) \div 256) % 16]
       /\ cpu'.delay_timer # cpu.delay_timer =>
             \/ UpdateTimers
             \/ Cycle /\ SetsDelayTimer(cpu)
             \/ Reset
             \/ LoadTimerRom]_vars

\* scenario 5 out of its loop: FX07 read 0 after the ten ticks that followed
\* FX15, and SE V0, 0 skipped the jump back
C12_Witness ==
    /\ cpu.rom_name = "scenario5"
    /\ cpu.cycles = 4
    /\ cpu.pc = program_start + 10
    /\ cpu.v[0] = 0
    /\ cpu.delay_timer = 0
    /\ ~cpu.draw_flag

\* the CPU thread is inside a frame's batch: at least one cycle() of the
\* batch has returned and the for loop is about to call the next one
BetweenCyclesOfBatch ==
    /\ gui.emu = "cycle"
    /\ gui.remaining < cycles_per_frame * speed_multiplier

\* C13: update_timers() on the timer thread never runs between two cycle()
\* calls of one frame's batch in _emulation_loop, so that every frame has its
\* instructions and its tick in the same order.
C13_TickOutsideBatch ==
    [][TimerTick => ~BetweenCyclesOfBatch]_vars

\* C14: every frame _render_loop has read is the framebuffer as it was
\* between two instructions of the CPU thread: no partly drawn, scrolled or
\* cleared screen is painted.
C14_FrameIsBoundaryFrame ==
    gui.tk = "flag" =>
        \E display \in gui.boundaries :
            gui.canvas.rows =
                Frame(display, gui.canvas.width, gui.canvas.height)

\* C15: no change of the framebuffer or of the viewport is lost: whenever
\* draw_flag is false and no render is in progress, the canvas shows the
\* active viewport of the display.
C15_NoLostFrame ==
    (~cpu.draw_flag /\ gui.tk = "idle") =>
        /\ gui.canvas.width = cpu.display_width
        /\ gui.canvas.height = cpu.display_height
        /\ gui.canvas.rows =
               Frame(cpu.display, cpu.display_width, cpu.display_height)

\* C16: the RPL flags survive a reset: reset() and load_rom() leave them as
\* they were.
C16_RplFlagsSurviveReset ==
    [][(Reset \/ LoadRom) => cpu'.rpl_flags = cpu.rpl_flags]_vars

\* C17: load_rom() with more than 3584 bytes is rejected and leaves the whole
\* machine as it was before the call.
C17_RejectedLoadChangesNothing ==
    [][(LoadRom /\ result' = "ValueError") => cpu' = cpu]_vars

\* the byte at address a of a memory that holds the 80 bytes of the small
\* font at 0x050, the 100 bytes of the large font at 0x0A0, the bytes of
\* `data` from 0x200 and zero elsewhere
FontsAndByte(data, a) ==
    IF a \in 80..159 THEN FONT_4X5[a - 79]
    ELSE IF a \in 160..259 THEN FONT_8X10[a - 159]
    ELSE IF a \in 512..(511 + Len(data)) THEN data[a - 511]
    ELSE 0

\* that memory, as the machine record keeps it (the nonzero bytes)
FontsAnd(data) ==
    [a \in {b \in 0..4095 : FontsAndByte(data, b) # 0} |->
        FontsAndByte(data, a)]

\* the memory reset() is to leave, and load_rom() for each accepted image
ResetMemory == FontsAnd(<< >>)

LoadedMemory ==
    [name \in {rom[1] : rom \in {r \in Roms : Len(r[2]) <= 3584}} |->
        FontsAnd((CHOOSE rom \in Roms : rom[1] = name)[2])]

ZeroRegisters == [r \in 0..15 |-> 0]
ZeroStack == [k \in 0..15 |-> 0]
ZeroFramebuffer == [y \in 0..63 |-> {}]
NoKeyPressed == [k \in 0..15 |-> FALSE]

\* the power-on state but for memory
PowerOn(s) ==
    /\ s.v = ZeroRegisters
    /\ s.i = 0
    /\ s.stack = ZeroStack
    /\ s.sp = 0
    /\ s.delay_timer = 0
    /\ s.sound_timer = 0
    /\ s.display = ZeroFramebuffer
    /\ s.keys = NoKeyPressed
    /\ ~s.waiting_for_key
    /\ ~s.halted
    /\ ~s.draw_flag
    /\ s.pc = 512
    /\ ~s.hires_mode
    /\ s.display_width = 64
    /\ s.display_height = 32

\* the step is a load_rom() of the image whose name the machine now bears
\* (a LoadRom step that was accepted)
AcceptedLoad ==
    /\ cpu'.rom_loaded
    /\ cpu'.cycles = 0
    /\ result' = "None"
    /\ \E rom \in Roms :
          /\ rom[1] = cpu'.rom_name
          /\ cpu' = load_rom(cpu, rom[2], rom[1])
    /\ UNCHANGED gui

\* C18: reset() from any state gives the power-on state: memory zero but for
\* the two fonts, registers, i, stack, sp, timers, framebuffer and keys zero,
\* no key wait, not halted, draw_flag false, pc = 0x200, the 64x32 viewport;
\* load_rom(data) with at most 3584 bytes gives that state with data[k] at
\* 0x200 + k and no other byte changed.
C18_ResetIsPowerOn ==
    [][/\ (~cpu'.rom_loaded /\ Reset) =>
             PowerOn(cpu') /\ cpu'.memory = ResetMemory
       /\ AcceptedLoad =>
             /\ PowerOn(cpu')
             /\ cpu'.rom_name \in DOMAIN LoadedMemory
             /\ cpu'.memory = LoadedMemory[cpu'.rom_name]]_vars

\* the timer and key-wait program freshly loaded over a machine that had run
C18_Witness ==
    /\ cpu.rom_name = "timerkey"
    /\ cpu.cycles = 0
    /\ result = "None"
    /\ PowerOn(cpu)
    /\ cpu.memory = FontsAnd(TimerKeyRom)

\* C19: load_state(get_state()) gives back the machine it was taken from,
\* key waits and halts included: registers, i, pc, stack, memory, display,
\* timers, the key wait and its register and the halted flag are as before,
\* so that every later sequence of calls behaves as it would have.
C19_SaveRestoreRoundTrip ==
    [][SaveRestore =>
          /\ cpu'.v = cpu.v
          /\ cpu'.i = cpu.i
          /\ cpu'.pc = cpu.pc
          /\ cpu'.stack = cpu.stack
          /\ cpu'.sp = cpu.sp
          /\ cpu'.memory = cpu.memory
          /\ cpu'.display = cpu.display
          /\ cpu'.hires_mode = cpu.hires_mode
          /\ cpu'.delay_timer = cpu.delay_timer
          /\ cpu'.sound_timer = cpu.sound_timer
          /\ cpu'.waiting_for_key = cpu.waiting_for_key
          /\ cpu'.key_register = cpu.key_register
          /\ cpu'.halted = cpu.halted]_vars

\* the pressed-mask after a key-down of k followed at once by a key-up of k
PressedThenReleased(k) == on_key_up(on_key_down(cpu, k), k).keys

\* C20, as stated: for every key k and every pressed-mask, also one in which
\* k is already pressed, press k then release k with no cycle() in between
\* leaves cpu.keys as it was.
C20_PressReleaseAsStated ==
    \A k \in 0..(num_keys - 1) : PressedThenReleased(k) = cpu.keys

\* C20, amended: for every key k and every pressed-mask in which k is not
\* pressed, press k then release k leaves cpu.keys as it was; if k was already
\* pressed, the release leaves every other key as it was and k not pressed.
C20_PressRelease ==
    \A k \in 0..(num_keys - 1) :
        PressedThenReleased(k) = [cpu.keys EXCEPT ![k] = FALSE]

\* key 7 pressed into the wait of F10A and released again while key F is held
C20_Witness ==
    /\ cpu.rom_name = "timerkey"
    /\ cpu.v[1] = 7
    /\ ~cpu.keys[7]
    /\ cpu.keys[15]
    /\ ~cpu.waiting_for_key

\* a runnable machine is about to execute 00FE or 00FF
ModeSwitch(s) == Runnable(s) /\ fetch(s) \in {254, 255}

\* C21: 00FE and 00FF set hires_mode and the active viewport (64x32 or
\* 128x64) and clear the framebuffer: every cell is 0 afterwards, whatever
\* was drawn before.
C21_ModeSwitchClears ==
    [][(ProgStep /\ ModeSwitch(cpu)) =>
          /\ cpu'.hires_mode = (fetch(cpu) = 255)
          /\ cpu'.display_width = IF fetch(cpu) = 255 THEN 128 ELSE 64
          /\ cpu'.display_height = IF fetch(cpu) = 255 THEN 64 ELSE 32
          /\ cpu'.display = ZeroFramebuffer]_vars

\* a runnable machine is about to execute a DXYN that reads its sprite
\* inside memory
Draws(s) ==
    /\ Runnable(s)
    /\ fetch(s) \div 4096 = 13
    /\ ~execute_raises(s, fetch(s))

\* the sprite of the DXYN at pc: its size, and whether bit (row, col) is 1
SpriteIs16(s) == fetch(s) % 16 = 0 /\ s.hires_mode
SpriteRows(s) == IF SpriteIs16(s) THEN 16 ELSE fetch(s) % 16
SpriteCols(s) == IF SpriteIs16(s) THEN 16 ELSE 8
SpriteBit(s, row, col) ==
    IF SpriteIs16(s)
    THEN ((Byte(s.memory, s.i + 2 * row) * 256
           + Byte(s.memory, s.i + 2 * row + 1)) \div Pow2(15 - col)) % 2 = 1
    ELSE (Byte(s.memory, s.i + row) \div Pow2(7 - col)) % 2 = 1

\* the wrapped start coordinate of the DXYN at pc
OriginX(s) == s.v[(fetch(s) \div 256) % 16] % s.display_width
OriginY(s) == s.v[(fetch(s) \div 16) % 16] % s.display_height

\* the 1 bits of the sprite, as <<row, col>>, and those of them whose
\* unwrapped coordinate lies inside the active viewport
SetBits(s) ==
    {b \in (0..(SpriteRows(s) - 1)) \X (0..(SpriteCols(s) - 1)) :
        SpriteBit(s, b[1], b[2])}
InsideBits(s) ==
    {b \in SetBits(s) : /\ OriginY(s) + b[1] < s.display_height
                        /\ OriginX(s) + b[2] < s.display_width}

\* the cell <<y, x>> a bit is drawn on
Target(s, b) ==
    << (OriginY(s) + b[1]) % s.display_height,
       (OriginX(s) + b[2]) % s.display_width >>

\* the cells that differ between two framebuffers, and those that went 1 -> 0
Changed(old, new) ==
    UNION { {<<y, x>> : x \in (old[y] \ new[y]) \cup (new[y] \ old[y])} :
              y \in 0..63 }
Erased(old, new) ==
    UNION { {<<y, x>> : x \in old[y] \ new[y]} : y \in 0..63 }

\* C22: after every DXYN (8xN or 16x16, clipping on or off, x or y = 0xF)
\* v[0xF] = 1 if a framebuffer cell went from 1 to 0 during the draw and 0
\* otherwise; each 1 bit that is drawn toggles its one target cell: the cells
\* that change are targets of 1 bits, every 1 bit inside the viewport changes
\* its target, and no two 1 bits share a target.
C22_CollisionFlag ==
    [][(ProgStep /\ Draws(cpu)) =>
          LET changed == Changed(cpu.display, cpu'.display)
              bits == SetBits(cpu)
              targets == {Target(cpu, b) : b \in bits}
          IN /\ cpu'.v[15] =
                   IF Erased(cpu.display, cpu'.display) # {} THEN 1 ELSE 0
             /\ changed \subseteq targets
             /\ {Target(cpu, b) : b \in InsideBits(cpu)} \subseteq changed
             /\ Cardinality(targets) = Cardinality(bits)]_vars

\* the second of two draws through VF: the first drew FF, 81 at x = 1 and
\* cleared VF, so the second draws at x = 0, erases columns 1..7 of the first
\* row and leaves columns 0 and 8 lit
C22_Witness ==
    /\ cpu.rom_name = "draw"
    /\ cpu.cycles = 5
    /\ ~cpu.hires_mode
    /\ cpu.v[15] = 1
    /\ cpu.display[0] = {0, 8}
    /\ cpu.display[1] = {0, 1, 7, 8}

\* C23: the start coordinate wraps; with quirk_clipping true no draw toggles
\* a cell whose unwrapped coordinate is at or beyond the viewport's width or
\* height, for 8xN and 16x16 sprites alike; with quirk_clipping false such
\* cells are drawn at the coordinate modulo width and height.
C23_ClippingFollowsQuirk ==
    [][(ProgStep /\ Draws(cpu)) =>
          Changed(cpu.display, cpu'.display) =
             {Target(cpu, b) :
                b \in IF cpu.config.quirk_clipping
                      THEN InsideBits(cpu) ELSE SetBits(cpu)}]_vars

\* the opcode cycle() executed last; RenderRom has no jump, skip or call, so
\* it is the word before pc
LastOpcode(s) == Byte(s.memory, s.pc - 2) * 256 + Byte(s.memory, s.pc - 1)

\* the CPU thread is about to call cycle() right after a DXYN, and the call
\* will execute an instruction
AfterDraw ==
    /\ gui.emu = "cycle"
    /\ Runnable(cpu)
    /\ cpu.pc > program_start
    /\ LastOpcode(cpu) \div 4096 = 13

\* C24: with quirk_display_wait true a DXYN ends the frame's batch: the
\* instruction after a DXYN executes as the first cycle of a later batch,
\* never in the batch of the DXYN.
C24_DrawEndsBatch ==
    [][(EmuCycle /\ AfterDraw /\ cpu.config.quirk_display_wait) =>
          gui.remaining = cycles_per_frame * speed_multiplier]_vars

\* a runnable machine is about to execute FX33, FX55, FX65, 5XY2, 5XY3 or DXYN
AddressesMemory(s) ==
    /\ Runnable(s)
    /\ \/ fetch(s) \div 4096 = 13
       \/ fetch(s) \div 4096 = 15 /\ fetch(s) % 256 \in {51, 85, 101}
       \/ fetch(s) \div 4096 = 5 /\ fetch(s) % 16 \in {2, 3}

\* C25: FX33, FX55, FX65, 5XY2, 5XY3 and DXYN complete for every i in
\* 0..0xFFFF: cycle() returns normally, without raising, and pc has advanced
\* by 2.
C25_OversizedIndexIsSafe ==
    [][(ProgStep /\ AddressesMemory(cpu)) =>
          /\ result' = "True"
          /\ cpu'.pc = cpu.pc + 2]_vars

\* whether an opcode matches no instruction
Undefined(opcode) ==
    LET op == opcode \div 4096
        n == opcode % 16
        nn == opcode % 256
    IN \/ opcode = 0
       \/ op = 5 /\ n \notin {0, 2, 3}
       \/ op = 8 /\ n \in (8..13) \cup {15}
       \/ op = 9 /\ n # 0
       \/ op = 14 /\ nn \notin {158, 161}
       \/ op = 15 /\ nn \notin {7, 10, 21, 24, 30, 41, 48, 51, 85, 101, 117, 133}

\* C26: an opcode that matches no instruction advances pc by exactly 2, sets
\* neither halted nor waiting_for_key, and changes no register, i, memory,
\* stack, timer or framebuffer cell.
C26_UndefinedOpcodeIsNoOp ==
    [][(ProgStep /\ Runnable(cpu) /\ Undefined(fetch(cpu))) =>
          /\ result' = "True"
          /\ cpu'.pc = cpu.pc + 2
          /\ ~cpu'.halted /\ ~cpu'.waiting_for_key
          /\ cpu'.v = cpu.v /\ cpu'.i = cpu.i
          /\ cpu'.memory = cpu.memory
          /\ cpu'.stack = cpu.stack /\ cpu'.sp = cpu.sp
          /\ cpu'.delay_timer = cpu.delay_timer
          /\ cpu'.sound_timer = cpu.sound_timer
          /\ cpu'.display = cpu.display]_vars

\* FXFF with X = 0xF has been executed after the prelude left V1, VF, the
\* timers, i, the stack and the framebuffer nonzero
C26_Witness ==
    /\ cpu.rom_name = "unknown"
    /\ cpu.pc = program_start + 18
    /\ LastOpcode(cpu) = 65535
    /\ cpu.v[1] = 5 /\ cpu.v[15] = 0
    /\ cpu.delay_timer = 5 /\ cpu.sound_timer = 7
    /\ cpu.i = 80 /\ cpu.sp = 1 /\ cpu.stack[0] = program_start + 14
    /\ cpu.display[7] = {5, 6, 7, 8}

\* C27: after any sequence of cycle(), key_pressed(k) and update_timers()
\* calls from reset with any ROM, every v register is in 0..255, i is in
\* 0..0xFFFF and both timers are in 0..255.
C27_ValuesInRange ==
    /\ \A r \in 0..(num_registers - 1) : cpu.v[r] \in 0..255
    /\ cpu.i \in 0..65535
    /\ cpu.delay_timer \in 0..255
    /\ cpu.sound_timer \in 0..255

\* i has wrapped past 0xFFFF: 0xFFF + 241 * 0xFF = 0x1000E
C27_Witness ==
    /\ cpu.rom_name = "wrap"
    /\ cpu.cycles = WrapAdds + 2
    /\ cpu.i = 14
    /\ cpu.v[0] = 255

\* a runnable machine is about to execute 8XYn with the given n
Alu(s, ns) ==
    /\ Runnable(s)
    /\ fetch(s) \div 4096 = 8
    /\ fetch(s) % 16 \in ns

\* the X and Y of the opcode at pc
OpX(s) == (fetch(s) \div 256) % 16
OpY(s) == (fetch(s) \div 16) % 16

\* the flag 8XYn computes from the registers before the instruction: carry,
\* not-borrow, the bit shifted out, or 0 for the logic opcodes
Flag(s) ==
    LET a == s.v[OpX(s)]
        b == s.v[OpY(s)]
        src == IF s.config.quirk_shifting THEN a ELSE b
        n == fetch(s) % 16
    IN CASE n = 4 -> IF a + b > 255 THEN 1 ELSE 0
         [] n = 5 -> IF a >= b THEN 1 ELSE 0
         [] n = 7 -> IF b >= a THEN 1 ELSE 0
         [] n = 6 -> src % 2
         [] n = 14 -> src \div 128
         [] OTHER -> 0

\* the n of the 8XYn that write a flag under the machine's quirks
FlagOps(s) ==
    {4, 5, 6, 7, 14} \cup (IF s.config.quirk_vf_reset THEN {1, 2, 3} ELSE {})

\* C28: every 8XYn that sets a flag writes v[0xF] after v[x]: with x = 0xF
\* the final v[0xF] is the flag (carry, not-borrow, the shifted-out bit, or 0
\* for 8XY1/2/3 under vf_reset), not the arithmetic result.
C28_FlagWrittenLast ==
    [][(ProgStep /\ Alu(cpu, FlagOps(cpu)) /\ OpX(cpu) = 15) =>
          cpu'.v[15] = Flag(cpu)]_vars

\* 8F24 on VF = 128, V2 = 128 has been executed: the sum is 0, the carry 1
C28_Witness ==
    /\ cpu.rom_name = "alu"
    /\ cpu.cycles = 4
    /\ LastOpcode(cpu) = 36644
    /\ cpu.v[2] = 128
    /\ cpu.v[15] = 1

\* a runnable machine is about to execute 7XNN
AddsByte(s) == Runnable(s) /\ fetch(s) \div 4096 = 7

\* the value 8XY4, 8XY5 and 8XY7 leave in v[x], from the registers before
Arith(s) ==
    LET a == s.v[OpX(s)]
        b == s.v[OpY(s)]
        n == fetch(s) % 16
    IN CASE n = 4 -> (a + b) % 256
         [] n = 5 -> (a - b) % 256
         [] OTHER -> (b - a) % 256

\* C29: for x # 0xF, with a = v[x] and b = v[y] before the instruction,
\* 8XY4 leaves v[x] = (a + b) mod 256 and VF = 1 iff a + b > 255, 8XY5 leaves
\* (a - b) mod 256 and VF = 1 iff a >= b, 8XY7 leaves (b - a) mod 256 and
\* VF = 1 iff b >= a; 7XNN leaves v[x] = (a + nn) mod 256 and VF untouched.
C29_AddSubtract ==
    [][/\ (ProgStep /\ Alu(cpu, {4, 5, 7}) /\ OpX(cpu) # 15) =>
             /\ cpu'.v[OpX(cpu)] = Arith(cpu)
             /\ cpu'.v[15] = Flag(cpu)
       /\ (ProgStep /\ AddsByte(cpu) /\ OpX(cpu) # 15) =>
             /\ cpu'.v[OpX(cpu)] = (cpu.v[OpX(cpu)] + (fetch(cpu) % 256)) % 256
             /\ cpu'.v[15] = cpu.v[15]]_vars

\* 8125 on V1 = V2 = 128 has been executed: difference 0, no borrow
C29_Witness ==
    /\ cpu.rom_name = "alu"
    /\ cpu.cycles = 4
    /\ LastOpcode(cpu) = 33061
    /\ cpu.v[1] = 0
    /\ cpu.v[2] = 128
    /\ cpu.v[15] = 1

\* C30: the source of 8XY6 / 8XYE follows quirk_shifting: v[x] when it is
\* true, v[y] when it is false (the default); v[x] receives the source
\* shifted by one bit, v[y] is left unchanged (y # x, y # 0xF), and VF is the
\* bit of the source that was shifted out: its LSB for 8XY6, its MSB for 8XYE.
C30_ShiftSource ==
    [][(ProgStep /\ Alu(cpu, {6, 14})) =>
          LET x == OpX(cpu)
              y == OpY(cpu)
              src == IF cpu.config.quirk_shifting THEN cpu.v[x] ELSE cpu.v[y]
              right == fetch(cpu) % 16 = 6
          IN /\ x # 15 =>
                   cpu'.v[x] = IF right THEN src \div 2 ELSE (src * 2) % 256
             /\ cpu'.v[15] = IF right THEN src % 2 ELSE src \div 128
             /\ (y # x /\ y # 15) => cpu'.v[y] = cpu.v[y]]_vars

\* 8126 under the default quirks on V1 = 1, V2 = 128: V1 = 64 is V2 shifted,
\* V2 is unchanged and VF = 0 is the LSB of V2, not of V1
C30_Witness ==
    /\ cpu.rom_name = "alu"
    /\ ~cpu.config.quirk_shifting
    /\ cpu.cycles = 4
    /\ LastOpcode(cpu) = 33062
    /\ cpu.v[1] = 64
    /\ cpu.v[2] = 128
    /\ cpu.v[15] = 0

\* a runnable machine is about to execute FXnn with the given nn, without
\* leaving memory
Transfers(s, nn) ==
    /\ Runnable(s)
    /\ fetch(s) \div 4096 = 15
    /\ fetch(s) % 256 = nn
    /\ ~execute_raises(s, fetch(s))

\* i after FX55 / FX65 as the quirk has it
TransferredIndex(s) ==
    IF s.config.quirk_memory_increment
    THEN (s.i + OpX(s) + 1) % 65536 ELSE s.i

\* C31: FX55 writes exactly memory[i..i+x] = v[0..x] and changes no other
\* memory byte; FX65 reads exactly v[0..x] = memory[i..i+x] and changes no
\* register above x; afterwards i = (i + x + 1) & 0xFFFF when
\* quirk_memory_increment is true and i is unchanged when it is false.
C31_TransferFrame ==
    [][/\ (ProgStep /\ Transfers(cpu, 85)) =>
             /\ \A a \in 0..(memory_size - 1) :
                   Byte(cpu'.memory, a) =
                      IF a \in cpu.i..(cpu.i + OpX(cpu))
                      THEN cpu.v[a - cpu.i] ELSE Byte(cpu.memory, a)
             /\ cpu'.i = TransferredIndex(cpu)
       /\ (ProgStep /\ Transfers(cpu, 101)) =>
             /\ \A r \in 0..(num_registers - 1) :
                   cpu'.v[r] =
                      IF r <= OpX(cpu)
                      THEN Byte(cpu.memory, cpu.i + r) ELSE cpu.v[r]
             /\ cpu'.memory = cpu.memory
             /\ cpu'.i = TransferredIndex(cpu)]_vars

\* F255 at 0x300 without the increment: three font bytes stored, the byte
\* after them untouched, i unchanged
C31_Witness ==
    /\ cpu.rom_name = "transfer"
    /\ ~cpu.config.quirk_memory_increment
    /\ LastOpcode(cpu) = 62037
    /\ cpu.i = 768
    /\ Byte(cpu.memory, 768) = 240
    /\ Byte(cpu.memory, 770) = 144
    /\ Byte(cpu.memory, 771) = 0
    /\ cpu.v[3] = 144

\* a runnable machine is about to execute the given 00xx opcode
Executes(s, opcode) == Runnable(s) /\ fetch(s) = opcode

\* the columns of a row that lie in the active viewport
InView(s, row) == {c \in row : c < s.display_width}

\* C32: in both modes, with active width W, 00FB moves every cell of the
\* active viewport 4 columns right and 00FC 4 columns left, and the vacated
\* columns of the viewport (0..3 after 00FB, W-4..W-1 after 00FC) are zero,
\* whatever ran before.
C32_ScrollSideways ==
    [][/\ (ProgStep /\ Executes(cpu, 251)) =>
             \A y \in 0..(cpu.display_height - 1) :
                InView(cpu, cpu'.display[y]) =
                   {c + 4 : c \in {d \in cpu.display[y] :
                                      d + 4 < cpu.display_width}}
       /\ (ProgStep /\ Executes(cpu, 252)) =>
             \A y \in 0..(cpu.display_height - 1) :
                InView(cpu, cpu'.display[y]) =
                   {c - 4 : c \in {d \in InView(cpu, cpu.display[y]) :
                                      d >= 4}}]_vars

\* the lit cells of row y that lie outside the 64x32 low-res viewport
OutsideLores(display, y) ==
    IF y >= lores_height THEN display[y]
    ELSE {c \in display[y] : c >= lores_width}

\* a runnable low-res machine is about to execute CLS, 00CN, 00DN, 00FB,
\* 00FC or a DXYN that reads its sprite inside memory
LoresDisplayOp(s) ==
    /\ Runnable(s)
    /\ ~s.hires_mode
    /\ \/ fetch(s) \in {224, 251, 252}
       \/ fetch(s) \div 16 \in {12, 13}
       \/ Draws(s)

\* C33: display instructions address only the active viewport: in low-res
\* mode CLS, 00CN, 00DN, 00FB, 00FC and DXYN leave every framebuffer cell
\* outside the 64x32 viewport (columns 64..127, rows 32..63) unchanged.
C33_OnlyActiveViewport ==
    [][(ProgStep /\ LoresDisplayOp(cpu)) =>
          \A y \in Rows :
             OutsideLores(cpu'.display, y) = OutsideLores(cpu.display, y)]_vars

\* C34: in the older core 0 <= sp <= STACK_SIZE after every cycle(): a RET
\* on the empty stack and a CALL on the full one are faults that leave sp
\* and the stack slots alone.
C34_StackPointerInRange == cpu.sp \in 0..STACK_SIZE

\* C35: the timers stay in 0..255 under every interleaving of update_timers
\* with FX15 and FX18, and a decrement never stores over a value the CPU
\* thread wrote after the decrement read the timer.
C35_TimersSurviveInterleaving ==
    /\ [](cpu.delay_timer \in 0..255 /\ cpu.sound_timer \in 0..255)
    /\ [][/\ TimerDelayStore => gui.loaded = cpu.delay_timer
          /\ TimerSoundStore => gui.loaded = cpu.sound_timer]_vars

\* C36: at most one CPU thread and one timer thread are ever started, however
\* often _load_rom and _start_emulation are called, and after _on_close both
\* loops terminate.
C36_OneThreadEach ==
    /\ [](gui.cpu_threads <= 1 /\ gui.timer_threads <= 1)
    /\ gui.closed ~> (gui.emu \in {"ended", "dead", "none"}
                         /\ gui.timer \in {"ended", "none"})

C36_Witness ==
    /\ gui.starts = MaxStarts
    /\ gui.cpu_threads = 1
    /\ gui.timer_threads = 1
    /\ gui.closed
    /\ gui.emu = "ended"
    /\ gui.timer = "ended"

\* C37: _reset re-loads the ROM: afterwards memory[0x200 .. 0x200 + rom_size)
\* holds the ROM image that was passed to load_rom, also when the program had
\* written over itself, and the machine is runnable at pc = 0x200, also when
\* it had halted.
C37_ResetReloadsImage ==
    [][GuiReset => /\ RomInMemory(cpu') = SelfWriteRom
                   /\ cpu'.pc = program_start
                   /\ ~cpu'.halted
                   /\ ~cpu'.waiting_for_key]_vars

\* the machine is about to execute the second DXYN of a program of
\* DrawPrograms, and the first has left v[x] and v[y] as 6XNN and 6YNN set
\* them; the first drew on the blank framebuffer of reset()
SecondDraw(s) ==
    /\ s.rom_name = "draw"
    /\ Draws(s)
    /\ LastOpcode(s) = fetch(s)
    /\ s.v[OpX(s)] = Byte(s.memory, s.pc - 7)
    /\ s.v[OpY(s)] = Byte(s.memory, s.pc - 5)

Stopped ==
    /\ gui.paused
    /\ gui.emu \in {"none", "test", "ended", "dead"}
    /\ gui.timer \in {"none", "test", "ended"}

\* C39: pausing stops the machine: once paused is set, at most the remaining
\* cycles of the batch in progress and the update_timers() in progress
\* complete; after that no cycle() and no update_timers() executes until
\* paused is cleared, and unpausing finds the machine in exactly the state in
\* which execution stopped.
C39_PauseStops ==
    /\ [][(gui.paused /\ gui'.paused /\ HarnessThreads) =>
             /\ gui'.remaining <= gui.remaining
             /\ gui.timer = "test" => gui'.timer # "delay"]_vars
    /\ [][(Stopped /\ HarnessThreads) => (Stopped' /\ cpu' = cpu)]_vars
    /\ [][GuiTogglePause => cpu' = cpu]_vars
    /\ gui.paused ~> (Stopped \/ ~gui.paused)

\* paused between the first batch of PauseRom and the second, both threads
\* at their loop tests, the delay timer set and the sound timer not yet
C39_Witness ==
    /\ Stopped
    /\ gui.emu = "test"
    /\ gui.timer = "test"
    /\ cpu.rom_name = "pause"
    /\ cpu.cycles = cycles_per_frame * speed_multiplier
    /\ cpu.delay_timer = 1
    /\ Runnable(cpu)

====
